---- MODULE Spec2Model ----
(***************************************************************************)
(* Model of the PDF calendar builder of the ChurchTools calendar extension *)
(* (src/src/pdf/CalendarBuilder.ts, CalendarEntry.ts, utils/date-utils.ts).*)
(*                                                                         *)
(* Dates are records of local calendar fields (JS getFullYear, getMonth,   *)
(* getDate, getHours, getMinutes); seconds and milliseconds are zero and   *)
(* the local time zone has no daylight-saving jumps.  Counts, days and     *)
(* millimetres of the page are integers.  Font sizes and lengths in points *)
(* are IEEE 754 doubles <<sign, exponent, high, low>>, computed with the   *)
(* rounding of the code's arithmetic (see the section on doubles): 7.5 is  *)
(* Dec(75, 10), 8 is FromInt(8).                                           *)
(* Entries are values, except where the code writes to them: there they    *)
(* are objects on a heap.                                                  *)
(***************************************************************************)
EXTENDS Integers, Sequences, FiniteSets, TLC

VARIABLES
    config,      \* CalendarBuilder.config: the constructor's argument over the defaults
    pages,       \* CalendarBuilder.pages: sequence of PageData
    categories,  \* CalendarBuilder.categories: Map in insertion order
    lastOp,      \* the public method that ran last
    error,       \* the error that call threw ("none" when it returned)
    output,      \* what that call handed to the renderer (generate only)
    call,        \* arguments of a private helper under check
    result,      \* what the helper returned
    done         \* the helper has returned

builderVars == <<config, pages, categories, lastOp, error, output>>
helperVars == <<call, result, done>>
vars == <<config, pages, categories, lastOp, error, output, call, result, done>>

-----------------------------------------------------------------------------
(* Bounds of the model *)

MaxPages == 2
MaxEntries == 2
MaxSpanDays == 3
MaxDayEntries == 2
MaxPageEntries == 2
MaxCategories == 15

-----------------------------------------------------------------------------
(* Dates *)

Null == [year |-> 0, month |-> 0, date |-> 0, hours |-> 0, minutes |-> 0]

IsLeapYear(y) == (y % 4 = 0 /\ y % 100 # 0) \/ y % 400 = 0

\* getDaysInMonth(year, month), month 1..12: new Date(year, month, 0).getDate()
getDaysInMonth(year, month) ==
    IF month = 2 THEN (IF IsLeapYear(year) THEN 29 ELSE 28)
    ELSE IF month \in {4, 6, 9, 11} THEN 30 ELSE 31

\* new Date(y, m, d, h, mi), m counted from 0: a field outside its range
\* carries into the next larger one (31 February 2024 is 2 March 2024, day 0
\* is the last day of the month before)
RECURSIVE MkDate(_, _, _, _, _)
MkDate(y, m, d, h, mi) ==
    IF mi < 0 \/ mi > 59 THEN MkDate(y, m, d, h + (mi \div 60), mi % 60)
    ELSE IF h < 0 \/ h > 23 THEN MkDate(y, m, d + (h \div 24), h % 24, mi)
    ELSE IF m < 0 \/ m > 11 THEN MkDate(y + (m \div 12), m % 12, d, h, mi)
    ELSE IF d < 1
         THEN (IF m = 0
               THEN MkDate(y - 1, 11, d + 31, h, mi)
               ELSE MkDate(y, m - 1, d + getDaysInMonth(y, m), h, mi))
    ELSE IF d > getDaysInMonth(y, m + 1)
         THEN MkDate(y, m + 1, d - getDaysInMonth(y, m + 1), h, mi)
    ELSE [year |-> y, month |-> m, date |-> d, hours |-> h, minutes |-> mi]

\* current.setDate(current.getDate() + 1): the next calendar day, same time
AddOneDay(d) ==
    IF d.date < getDaysInMonth(d.year, d.month + 1)
    THEN [d EXCEPT !.date = d.date + 1]
    ELSE IF d.month < 11
         THEN [d EXCEPT !.date = 1, !.month = d.month + 1]
         ELSE [d EXCEPT !.date = 1, !.month = 0, !.year = d.year + 1]

RECURSIVE DaysBeforeMonth(_, _)
DaysBeforeMonth(y, m) ==
    IF m = 0 THEN 0 ELSE DaysBeforeMonth(y, m - 1) + getDaysInMonth(y, m)

LeapYearsBefore(y) == ((y - 1) \div 4) - ((y - 1) \div 100) + ((y - 1) \div 400)

DaysSinceEpoch(d) ==
    365 * (d.year - 1970) + (LeapYearsBefore(d.year) - LeapYearsBefore(1970))
    + DaysBeforeMonth(d.year, d.month) + (d.date - 1)

\* Date.getTime() in minutes since 1970-01-01 00:00 local time (the code's
\* milliseconds divided by 60000: every date here is on a whole minute)
getTime(d) == (DaysSinceEpoch(d) * 24 + d.hours) * 60 + d.minutes

\* Date.toDateString() of two dates are equal
SameDateString(a, b) ==
    a.year = b.year /\ a.month = b.month /\ a.date = b.date

\* Date.getDay(): 0 = Sunday; 1970-01-01 was a Thursday
getDay(d) == (DaysSinceEpoch(d) + 4) % 7

\* The remainder operator of the code: the result has the dividend's sign
JsRem(a, b) == IF a >= 0 THEN a % b ELSE 0 - ((0 - a) % b)

\* Mutant of getFirstDayWeekday: the difference is not lifted by 7.
getFirstDayWeekdayNoWrap(year, month, weekStarts) ==
    JsRem(getDay(MkDate(year, month - 1, 1, 0, 0)) - weekStarts, 7)

\* getFirstDayWeekday(year, month, weekStarts), month 1..12
getFirstDayWeekday(year, month, weekStarts) ==
    (getDay(MkDate(year, month - 1, 1, 0, 0)) + 7 - weekStarts) % 7

\* getWeeksInMonth: Math.ceil((daysInMonth + firstDayWeekday) / 7)
getWeeksInMonth(year, month, weekStarts) ==
    (getDaysInMonth(year, month) + getFirstDayWeekday(year, month, weekStarts) + 6)
        \div 7

-----------------------------------------------------------------------------
(* Colours *)

\* A colour string '#RRGGBB' is the sequence of its six hex digits.
HexBlack == <<0, 0, 0, 0, 0, 0>>
HexWhite == <<15, 15, 15, 15, 15, 15>>
HexRed == <<15, 15, 0, 0, 0, 0>>

html2rgb(hex) ==
    <<16 * hex[1] + hex[2], 16 * hex[3] + hex[4], 16 * hex[5] + hex[6]>>

\* typeof c === 'string' ? html2rgb(c) : c
ToRGB(c) == IF Len(c) = 6 THEN html2rgb(c) ELSE c

\* parseInt(hex.substring(i, i + 2), 16) of the colour string without '#',
\* i counted from 0
ParseHexPair(hex, i) == 16 * hex[i + 1] + hex[i + 2]

\* (r * 299 + g * 587 + b * 114) / 1000 as an exact fraction
Brightness(hex) ==
    << ParseHexPair(hex, 0) * 299 + ParseHexPair(hex, 2) * 587
         + ParseHexPair(hex, 4) * 114, 1000 >>

\* brightness > 128, with brightness = <<numerator, denominator>>
Above128(brightness) == brightness[1] > 128 * brightness[2]

\* Mutant of getContrastColorForCalendar: black from brightness 128 on.
getContrastColorForCalendarFrom128(hexColor) ==
    IF Brightness(hexColor)[1] >= 128 * Brightness(hexColor)[2]
    THEN "#000000" ELSE "#FFFFFF"

\* The text colour of a calendar's entries in the PDF
getContrastColorForCalendar(hexColor) ==
    IF Above128(Brightness(hexColor)) THEN "#000000" ELSE "#FFFFFF"

\* The text colour of a calendar's badge in the form
getContrastColor(hexColor) ==
    IF Above128(Brightness(hexColor)) THEN "#000000" ELSE "#ffffff"

\* The font colour of a calendar's cells in the spreadsheet (without '#')
getContrastColorHex(hexColor) ==
    IF Above128(Brightness(hexColor)) THEN "000000" ELSE "FFFFFF"

-----------------------------------------------------------------------------
(* CalendarEntry *)

CalendarEntry(startDate, endDate, message, textColor, bgColor) ==
    [ day |-> startDate.date,
      startDate |-> startDate,
      endDate |-> endDate,
      message |-> message,
      textColor |-> ToRGB(textColor),
      bgColor |-> ToRGB(bgColor),
      hideStartTime |-> FALSE,
      hideEndTime |-> FALSE,
      isContinuation |-> FALSE,
      originalStartDate |-> Null ]

isSpanningDays(e) ==
    IF e.endDate = Null THEN FALSE
    ELSE ~SameDateString(e.startDate, e.endDate)

\* Mutant of isAllDay: only the start time is looked at.
isAllDayStartOnly(e) ==
    /\ e.startDate.hours = 0
    /\ e.startDate.minutes = 0

isAllDay(e) ==
    /\ e.startDate.hours = 0
    /\ e.startDate.minutes = 0
    /\ \/ e.endDate = Null
       \/ (e.endDate.hours = 0 /\ e.endDate.minutes = 0)
       \/ (e.endDate.hours = 23 /\ e.endDate.minutes = 59)

\* isAllDayEvent(startDate, endDate) of date-utils
isAllDayEvent(startDate, endDate) ==
    IF startDate.hours # 0 \/ startDate.minutes # 0 THEN FALSE
    ELSE IF endDate = Null THEN TRUE
    ELSE \/ (endDate.hours = 0 /\ endDate.minutes = 0)
         \/ (endDate.hours = 23 /\ endDate.minutes = 59)

\* Mutant of PadStart2: the minutes are not padded.
PadStart2NoPad(n) == ToString(n)

\* minutes.toString().padStart(2, '0')
PadStart2(n) == IF n < 10 THEN "0" \o ToString(n) ELSE ToString(n)

getFormattedStartTime(e) ==
    IF e.hideStartTime \/ isAllDay(e) THEN ""
    ELSE IF e.startDate.minutes = 0
         THEN ToString(e.startDate.hours) \o "h "
         ELSE ToString(e.startDate.hours) \o ":"
                \o PadStart2(e.startDate.minutes) \o "h "

getFormattedEndTime(e) ==
    IF e.hideEndTime \/ e.endDate = Null \/ isAllDay(e) THEN ""
    ELSE IF e.endDate.minutes = 0
         THEN ToString(e.endDate.hours) \o "h"
         ELSE ToString(e.endDate.hours) \o ":"
                \o PadStart2(e.endDate.minutes) \o "h"

cloneForDay(e, day, month, year) ==
    LET newStart == MkDate(year, month - 1, day,
                           e.startDate.hours, e.startDate.minutes)
        clone == CalendarEntry(newStart, Null, e.message, e.textColor, e.bgColor)
    IN  [clone EXCEPT !.originalStartDate = e.startDate]

\* Entries as objects: a heap is a sequence of entries and an object is its
\* index in it, so that a write through one reference shows through all.

\* Mutant of CloneForDayRef: the entry re-anchors and returns itself.
CloneForDayRefSelf(heap, src, day, month, year) ==
    [ heap |-> [heap EXCEPT ![src] = cloneForDay(heap[src], day, month, year)],
      ref |-> src ]

\* cloneForDay on the object src: `new CalendarEntry(...)` allocates the clone
CloneForDayRef(heap, src, day, month, year) ==
    [ heap |-> Append(heap, cloneForDay(heap[src], day, month, year)),
      ref |-> Len(heap) + 1 ]

-----------------------------------------------------------------------------
(* CalendarBuilder: expansion of multi-day appointments *)

ELLIPSIS == "..."

\* One pass of the while loop body for the day `current`.
ExpandDay(entry, current, end, isFirst, month, year) ==
    LET newEntry == cloneForDay(entry, current.date, month, year)
        cont == IF ~isFirst
                THEN [newEntry EXCEPT !.hideStartTime = TRUE,
                                      !.isContinuation = TRUE,
                                      !.message = ELLIPSIS \o entry.message]
                ELSE newEntry
        isLastDay == SameDateString(current, end)
    IN  IF ~isLastDay
        THEN [cont EXCEPT !.hideEndTime = TRUE,
                          !.message = IF ~cont.isContinuation
                                      THEN entry.message \o ELLIPSIS
                                      ELSE ELLIPSIS \o entry.message \o ELLIPSIS]
        ELSE cont

\* Mutant of ExpandLoop: isFirst is cleared only by a day inside the month.
RECURSIVE ExpandLoopFirstInMonth(_, _, _, _, _, _)
ExpandLoopFirstInMonth(entry, current, end, isFirst, month, year) ==
    IF getTime(current) <= getTime(end)
    THEN IF current.month = month - 1 /\ current.year = year
         THEN <<ExpandDay(entry, current, end, isFirst, month, year)>>
              \o ExpandLoopFirstInMonth(entry, AddOneDay(current), end, FALSE, month, year)
         ELSE ExpandLoopFirstInMonth(entry, AddOneDay(current), end, isFirst, month, year)
    ELSE <<>>

\* while (current <= end) { ...; current.setDate(current.getDate() + 1) }
RECURSIVE ExpandLoop(_, _, _, _, _, _)
ExpandLoop(entry, current, end, isFirst, month, year) ==
    IF getTime(current) <= getTime(end)
    THEN (IF current.month = month - 1 /\ current.year = year
          THEN <<ExpandDay(entry, current, end, isFirst, month, year)>>
          ELSE <<>>)
         \o ExpandLoop(entry, AddOneDay(current), end, FALSE, month, year)
    ELSE <<>>

\* Mutant of ExpandEntry: a single-day entry is kept whatever its month.
ExpandEntryAnyMonth(entry, month, year) ==
    IF ~isSpanningDays(entry) \/ entry.endDate = Null
    THEN <<entry>>
    ELSE ExpandLoop(entry, entry.startDate, entry.endDate, TRUE, month, year)

ExpandEntry(entry, month, year) ==
    IF ~isSpanningDays(entry) \/ entry.endDate = Null
    THEN (IF entry.startDate.month = month - 1 /\ entry.startDate.year = year
          THEN <<entry>> ELSE <<>>)
    ELSE ExpandLoop(entry, entry.startDate, entry.endDate, TRUE, month, year)

RECURSIVE expandMultiDayEntries(_, _, _)
expandMultiDayEntries(entries, month, year) ==
    IF entries = <<>> THEN <<>>
    ELSE ExpandEntry(Head(entries), month, year)
         \o expandMultiDayEntries(Tail(entries), month, year)

\* The same expansion on objects.  The heap starts as the page's stored
\* entries (objects 1..Len(entries)); `refs` is the array `expanded`.

\* Mutant of DayWrites: the flags and the message are written to the entry
\* being expanded, not to its clone.
DayWritesToEntry(heap, newEntry, entry, isFirst, isLastDay) ==
    LET h1 == IF ~isFirst
              THEN [heap EXCEPT ![entry].hideStartTime = TRUE,
                                ![entry].isContinuation = TRUE,
                                ![entry].message = ELLIPSIS \o heap[entry].message]
              ELSE heap
    IN  IF ~isLastDay
        THEN [h1 EXCEPT ![entry].hideEndTime = TRUE,
                        ![entry].message =
                            IF ~h1[entry].isContinuation
                            THEN h1[entry].message \o ELLIPSIS
                            ELSE ELLIPSIS \o h1[entry].message \o ELLIPSIS]
        ELSE h1

\* The writes of one loop pass to the object newEntry; entry is the object
\* the loop is expanding.
DayWrites(heap, newEntry, entry, isFirst, isLastDay) ==
    LET h1 == IF ~isFirst
              THEN [heap EXCEPT ![newEntry].hideStartTime = TRUE,
                                ![newEntry].isContinuation = TRUE,
                                ![newEntry].message = ELLIPSIS \o heap[entry].message]
              ELSE heap
    IN  IF ~isLastDay
        THEN [h1 EXCEPT ![newEntry].hideEndTime = TRUE,
                        ![newEntry].message =
                            IF ~h1[newEntry].isContinuation
                            THEN h1[entry].message \o ELLIPSIS
                            ELSE ELLIPSIS \o h1[entry].message \o ELLIPSIS]
        ELSE h1

RECURSIVE ExpandLoopObjects(_, _, _, _, _, _, _)
ExpandLoopObjects(st, entry, current, end, isFirst, month, year) ==
    IF getTime(current) <= getTime(end)
    THEN LET cl == CloneForDayRef(st.heap, entry, current.date, month, year)
             inMonth == current.month = month - 1 /\ current.year = year
             after == IF inMonth
                      THEN [ heap |-> DayWrites(cl.heap, cl.ref, entry, isFirst,
                                                SameDateString(current, end)),
                             refs |-> Append(st.refs, cl.ref) ]
                      ELSE st
         IN  ExpandLoopObjects(after, entry, AddOneDay(current), end, FALSE, month, year)
    ELSE st

RECURSIVE ExpandObjectsFrom(_, _, _, _, _)
ExpandObjectsFrom(st, entry, numEntries, month, year) ==
    IF entry > numEntries THEN st
    ELSE LET e == st.heap[entry]
             after ==
                IF ~isSpanningDays(e) \/ e.endDate = Null
                THEN (IF e.startDate.month = month - 1 /\ e.startDate.year = year
                      THEN [st EXCEPT !.refs = Append(st.refs, entry)]
                      ELSE st)
                ELSE ExpandLoopObjects(st, entry, e.startDate, e.endDate, TRUE, month, year)
         IN  ExpandObjectsFrom(after, entry + 1, numEntries, month, year)

ExpandObjects(entries, month, year) ==
    ExpandObjectsFrom([heap |-> entries, refs |-> <<>>], 1, Len(entries), month, year)

\* The entries the array `expanded` refers to when the expansion returns
ExpandedOf(st) == [i \in 1..Len(st.refs) |-> st.heap[st.refs[i]]]

\* page.entries when the expansion of the page has returned
StoredAfterExpand(entries, month, year) ==
    SubSeq(ExpandObjects(entries, month, year).heap, 1, Len(entries))

-----------------------------------------------------------------------------
(* CalendarBuilder: sorting *)

\* The comparator of sortEntries: negative, zero or positive.
CompareEntries(a, b) ==
    IF a.day # b.day THEN a.day - b.day
    ELSE getTime(a.startDate) - getTime(b.startDate)

\* Array.prototype.sort is stable: an element goes after every element that
\* does not compare greater than it.
\* Mutant of InsertSorted: an element goes before the elements equal to it.
RECURSIVE InsertSortedBeforeEqual(_, _)
InsertSortedBeforeEqual(sorted, e) ==
    IF sorted = <<>> THEN <<e>>
    ELSE IF CompareEntries(Head(sorted), e) < 0
         THEN <<Head(sorted)>> \o InsertSortedBeforeEqual(Tail(sorted), e)
         ELSE <<e>> \o sorted

RECURSIVE InsertSorted(_, _)
InsertSorted(sorted, e) ==
    IF sorted = <<>> THEN <<e>>
    ELSE IF CompareEntries(Head(sorted), e) <= 0
         THEN <<Head(sorted)>> \o InsertSorted(Tail(sorted), e)
         ELSE <<e>> \o sorted

RECURSIVE SortInto(_, _)
SortInto(sorted, rest) ==
    IF rest = <<>> THEN sorted
    ELSE SortInto(InsertSorted(sorted, Head(rest)), Tail(rest))

sortEntries(entries) == SortInto(<<>>, entries)

\* groupEntriesByDay: the entries of each day, in the order given; a day
\* without a key in the Map reads as [] (entriesByDay.get(day) || []).
groupEntriesByDay(entries) ==
    [d \in 1..31 |-> SelectSeq(entries, LAMBDA e : e.day = d)]

-----------------------------------------------------------------------------
(* The numbers of the layout code: IEEE 754 doubles.  A double is the      *)
(* tuple <<s, e, hi, lo>>: s is its sign (1, -1, or 0 for zero), and when  *)
(* s # 0 its value is s * m * 2^(e - 52) with the 53-bit significand       *)
(* m = hi * 2^28 + lo, 2^52 <= m < 2^53.  Every operation gives the        *)
(* nearest double of the exact result, ties to the even significand, as    *)
(* the code's +, -, * and / do.  Sums and quotients are worked out on the  *)
(* significand with three more bits, the pair <<h, l>> for h * 2^28 + l,   *)
(* whose lowest bit is set when any lower bit of the exact result is.      *)

\* The exponent of Infinity; NaN has the sign 0
ExpInf == 2^10
FZero == <<0, 0, 0, 0>>
FNaN == <<0, ExpInf, 0, 0>>
FInf(s) == <<s, ExpInf, 0, 0>>

\* l with its lowest bit set when bits were lost below it
FSticky(l, lost) == IF lost /\ l % 2 = 0 THEN l + 1 ELSE l

\* The number of bits by which h < 2^28 is shifted left to reach 2^27
FLeadingZeros(h) == Cardinality({k \in 1..27 : h < 2^(28 - k)})

\* x * 2^(e - 55) with x = h * 2^28 + l shifted left by d bits
FShiftLeft(e, h, l, d) ==
    <<e - d, h * 2^d + (l \div 2^(28 - d)), (l % 2^(28 - d)) * 2^d>>

\* x * 2^(e - 55) with x = h * 2^28 + l brought into 2^55 <= x < 2^56
FNormalize(e, h, l) ==
    IF h >= 2^28
    THEN <<e + 1, h \div 2, FSticky((h % 2) * 2^27 + (l \div 2), l % 2 = 1)>>
    ELSE IF h = 0 THEN FShiftLeft(e - 28, l, 0, FLeadingZeros(l))
    ELSE FShiftLeft(e, h, l, FLeadingZeros(h))

\* The significand hi * 2^28 + lo, rounded up when the three bits r cut off
\* below it are more than a half, or a half and the significand is odd
FRoundUp(s, e, hi, lo, r) ==
    IF ~(r > 4 \/ (r = 4 /\ lo % 2 = 1)) THEN <<s, e, hi, lo>>
    ELSE IF lo + 1 < 2^28 THEN <<s, e, hi, lo + 1>>
    ELSE IF hi + 1 < 2^25 THEN <<s, e, hi + 1, 0>>
    ELSE <<s, e + 1, 2^24, 0>>

\* The double of the normalized n = <<e, h, l>>
FRoundNormal(s, n) ==
    FRoundUp(s, n[1], n[2] \div 8, (n[3] \div 8) + (n[2] % 8) * 2^25, n[3] % 8)

\* The double nearest to s * (h * 2^28 + l) * 2^(e - 55)
FRound(s, e, h, l) ==
    IF h = 0 /\ l = 0 THEN FZero ELSE FRoundNormal(s, FNormalize(e, h, l))

FRoundPair(s, e, x) == FRound(s, e, x[1], x[2])

\* The significand of a double with three more bits
FExtend(a) == <<a[3] * 8 + (a[4] \div 2^25), (a[4] % 2^25) * 8>>

\* x shifted right by d bits
FShiftRight(x, d) ==
    IF d = 0 THEN x
    ELSE IF d < 28
    THEN <<x[1] \div 2^d,
           FSticky((x[2] \div 2^d) + (x[1] % 2^d) * 2^(28 - d), x[2] % 2^d # 0)>>
    ELSE IF d < 57
    THEN <<0, FSticky(x[1] \div 2^(d - 28), x[1] % 2^(d - 28) # 0 \/ x[2] # 0)>>
    ELSE <<0, 1>>

\* x >= y, x + y and x - y for pairs
FPairGreaterEq(x, y) == x[1] > y[1] \/ (x[1] = y[1] /\ x[2] >= y[2])
FPairSum(x, y) == <<x[1] + y[1] + ((x[2] + y[2]) \div 2^28), (x[2] + y[2]) % 2^28>>
FPairDiff(x, y) == <<x[1] - y[1] - (IF x[2] < y[2] THEN 1 ELSE 0), (x[2] - y[2]) % 2^28>>

\* The sum of the doubles with the signs sa and sb and the significands x
\* and y at the exponent e
FAddAligned(sa, sb, e, x, y) ==
    FRoundPair(IF sa = sb \/ FPairGreaterEq(x, y) THEN sa ELSE sb, e,
               IF sa = sb THEN FPairSum(x, y)
               ELSE IF FPairGreaterEq(x, y) THEN FPairDiff(x, y)
               ELSE FPairDiff(y, x))

FAddAt(a, b, e) ==
    FAddAligned(a[1], b[1], e, FShiftRight(FExtend(a), e - a[2]),
                FShiftRight(FExtend(b), e - b[2]))

\* a + b
FAdd(a, b) ==
    IF a[1] = 0 THEN b
    ELSE IF b[1] = 0 THEN a
    ELSE FAddAt(a, b, IF a[2] >= b[2] THEN a[2] ELSE b[2])

FNeg(a) == <<0 - a[1], a[2], a[3], a[4]>>

\* a - b
FSub(a, b) == FAdd(a, FNeg(b))

\* The significand in four digits of 14 bits, the lowest first
FDigits(a) == <<a[4] % 2^14, a[4] \div 2^14, a[3] % 2^14, a[3] \div 2^14>>

\* The columns of the long multiplication of x and y
FColumns(x, y) ==
    << x[1] * y[1],
       x[1] * y[2] + x[2] * y[1],
       x[1] * y[3] + x[2] * y[2] + x[3] * y[1],
       x[1] * y[4] + x[2] * y[3] + x[3] * y[2] + x[4] * y[1],
       x[2] * y[4] + x[3] * y[3] + x[4] * y[2],
       x[3] * y[4] + x[4] * y[3],
       x[4] * y[4] >>

\* The digits of the product from column k on, the carry as the last one
RECURSIVE FCarry(_, _, _)
FCarry(cols, k, carry) ==
    IF k > Len(cols) THEN <<carry>>
    ELSE <<(cols[k] + carry) % 2^14>> \o FCarry(cols, k + 1, (cols[k] + carry) \div 2^14)

\* The double of the 106-bit product with the digits p
FMulRound(s, e, p) ==
    FRound(s, e, (p[6] \div 2^7) + (p[7] + p[8] * 2^14) * 2^7,
           FSticky((p[4] \div 2^7) + p[5] * 2^7 + (p[6] % 2^7) * 2^21,
                   p[4] % 2^7 # 0 \/ p[3] # 0 \/ p[2] # 0 \/ p[1] # 0))

\* a * b
FMul(a, b) ==
    IF a[1] = 0 \/ b[1] = 0 THEN FZero
    ELSE FMulRound(a[1] * b[1], a[2] + b[2],
                   FCarry(FColumns(FDigits(a), FDigits(b)), 1, 0))

\* One step of the long division of the significands: the remainder
\* st[1] * 2^28 + st[2] doubled, less the divisor d[1] * 2^28 + d[2] when it
\* is as large, the next bit of the quotient st[3] * 2^28 + st[4], and the
\* number st[5] of bits still to come
FDivBit(st, d) ==
    LET h == st[1] * 2 + ((st[2] * 2) \div 2^28)
        l == (st[2] * 2) % 2^28
        bit == IF h > d[1] \/ (h = d[1] /\ l >= d[2]) THEN 1 ELSE 0
    IN  <<IF bit = 0 THEN h ELSE h - d[1] - (IF l < d[2] THEN 1 ELSE 0),
          IF bit = 0 THEN l ELSE (l - d[2]) % 2^28,
          st[3] * 2 + ((st[4] * 2 + bit) \div 2^28),
          (st[4] * 2 + bit) % 2^28,
          st[5] - 1>>

\* The quotient of the significands after the bits still to come, four at a time
RECURSIVE FDivBits(_, _)
FDivBits(st, d) ==
    IF st[5] = 0 THEN <<st[3], FSticky(st[4], st[1] # 0 \/ st[2] # 0)>>
    ELSE FDivBits(FDivBit(FDivBit(FDivBit(FDivBit(st, d), d), d), d), d)

\* The first bit of the quotient of the significands x and y
FDivStart(x, y) ==
    IF FPairGreaterEq(x, y) THEN FPairDiff(x, y) \o <<0, 1, 56>>
    ELSE x \o <<0, 0, 56>>

\* a / b
FDiv(a, b) ==
    IF b[1] = 0 THEN (IF a[1] = 0 THEN FNaN ELSE FInf(a[1]))
    ELSE IF a[1] = 0 THEN FZero
    ELSE FRoundPair(a[1] * b[1], a[2] - b[2] - 1,
                    FDivBits(FDivStart(<<a[3], a[4]>>, <<b[3], b[4]>>), <<b[3], b[4]>>))

\* a < b; a comparison with NaN is false
FLess(a, b) ==
    IF a = FNaN \/ b = FNaN THEN FALSE
    ELSE IF a[1] # b[1] THEN a[1] < b[1]
    ELSE IF a[1] = 0 THEN FALSE
    ELSE LET x == IF a[1] = 1 THEN a ELSE b
             y == IF a[1] = 1 THEN b ELSE a
         IN  \/ x[2] < y[2]
             \/ x[2] = y[2] /\ (x[3] < y[3] \/ (x[3] = y[3] /\ x[4] < y[4]))

\* a <= b
FLessEq(a, b) == a # FNaN /\ (a = b \/ FLess(a, b))

\* Math.max(a, b)
FMax(a, b) == IF FLess(a, b) THEN b ELSE a

\* The double of an integer n, -2^28 < n < 2^28
FromInt(n) ==
    IF n = 0 THEN FZero
    ELSE IF n > 0 THEN FRound(1, 55, 0, n)
    ELSE FRound(-1, 55, 0, 0 - n)

\* The double of the decimal literal n / d (1.4 is Dec(14, 10))
Dec(n, d) == FDiv(FromInt(n), FromInt(d))

\* Math.floor(a) for -2^30 < a < 2^30
FFloor(a) ==
    IF a[1] = 0 THEN 0
    ELSE LET k == 52 - a[2]
             whole == IF a[2] < 0 THEN 0
                      ELSE IF k >= 28 THEN a[3] \div 2^(k - 28)
                      ELSE a[3] * 2^(28 - k) + (a[4] \div 2^k)
             part == IF a[2] < 0 THEN TRUE
                     ELSE IF k >= 28 THEN a[3] % 2^(k - 28) # 0 \/ a[4] # 0
                     ELSE a[4] % 2^k # 0
         IN  IF a[1] = 1 THEN whole
             ELSE IF part THEN 0 - whole - 1 ELSE 0 - whole

\* The decimal literals 1.4, 0.55 and 0.5 of the layout code
OnePointFour == Dec(14, 10)
PointFiveFive == Dec(55, 100)
OneHalf == Dec(5, 10)

-----------------------------------------------------------------------------
(* CalendarBuilder: the layout solver.  Font sizes and lengths are doubles  *)
(* in points.                                                               *)

ENTRY_FONT_SIZE == 8
MIN_FONT_SIZE == 5
DAY_NUMBER_FONT_SIZE == 14
entryMarginV == 2
cellMarginV == 4
cellMarginH == 4

\* entryFontSize -= 0.5
FONT_STEP == OneHalf

\* dayNumberHeight = DAY_NUMBER_FONT_SIZE * 1.2
dayNumberHeight == FMul(FromInt(DAY_NUMBER_FONT_SIZE), Dec(12, 10))
minRowHeight == FAdd(dayNumberHeight, FromInt(cellMarginV))

Max(a, b) == IF a >= b THEN a ELSE b

\* Math.ceil(a / b) for integers a >= 0, b > 0 (the quotient of two small
\* integers rounds to a whole number only when it is one)
CeilDiv(a, b) == (a + b - 1) \div b

\* Mutant of LineHeight: the line height grows as the font shrinks.
LineHeightInverse(entryFontSize) ==
    FDiv(FMul(FromInt(ENTRY_FONT_SIZE * ENTRY_FONT_SIZE), OnePointFour), entryFontSize)

\* lineHeight = entryFontSize * 1.4
LineHeight(entryFontSize) == FMul(entryFontSize, OnePointFour)

\* avgCharWidth = entryFontSize * 0.55
AvgCharWidth(entryFontSize) == FMul(entryFontSize, PointFiveFive)

\* textWidth = colWidthPt - 4
TextWidth(colWidthPt) == FSub(colWidthPt, FromInt(cellMarginH))

\* Math.max(1, Math.floor(textWidth / avgCharWidth))
CharsPerLine(textWidth, avgCharWidth) == Max(1, FFloor(FDiv(textWidth, avgCharWidth)))

\* The height one entry adds to its cell: lines * lineHeight + entryMarginV.
\* charsPerLine is the same for every entry of a call.
EntryHeight(entry, in) ==
    LET timeStr == IF ~entry.hideStartTime /\ ~isAllDay(entry)
                   THEN getFormattedStartTime(entry) ELSE ""
        text == timeStr \o entry.message
        lines == Max(1, CeilDiv(Len(text), in.charsPerLine))
    IN  FAdd(FMul(FromInt(lines), in.lineHeight), FromInt(entryMarginV))

\* let cellHeight = cellMarginV + dayNumberHeight
emptyCellHeight == FAdd(FromInt(cellMarginV), dayNumberHeight)

\* cellHeight += lines * lineHeight + entryMarginV for every entry in turn
RECURSIVE CellHeight(_, _)
CellHeight(dayEntries, in) ==
    IF dayEntries = <<>> THEN emptyCellHeight
    ELSE FAdd(CellHeight(SubSeq(dayEntries, 1, Len(dayEntries) - 1), in),
              EntryHeight(dayEntries[Len(dayEntries)], in))

\* The inner loop of estimateRowContentHeights over the columns of one row,
\* on its variables st = [col, currentDay, maxCellHeight]: currentDay
\* advances only over cells that hold a day.
RECURSIVE EstimateRow(_, _, _)
EstimateRow(in, row, st) ==
    IF st.col = 7 THEN st
    ELSE IF (row = 0 /\ st.col < in.weekdayOfFirst) \/ st.currentDay > in.daysInMonth
         THEN EstimateRow(in, row, [st EXCEPT !.col = st.col + 1])
    ELSE EstimateRow(in, row,
            [ col |-> st.col + 1,
              currentDay |-> st.currentDay + 1,
              maxCellHeight |-> FMax(st.maxCellHeight,
                                     CellHeight(in.entriesByDay[st.currentDay], in)) ])

\* rowHeights.push(maxCellHeight) after the inner loop of the row
EstimatePush(st, after) ==
    [ row |-> st.row + 1,
      currentDay |-> after.currentDay,
      rowHeights |-> Append(st.rowHeights, after.maxCellHeight) ]

\* The outer loop over the rows, on its variables
\* st = [row, currentDay, rowHeights]
RECURSIVE EstimateWalk(_, _)
EstimateWalk(in, st) ==
    IF st.row = in.numRows THEN st.rowHeights
    ELSE EstimateWalk(in,
            EstimatePush(st, EstimateRow(in, st.row,
                [ col |-> 0, currentDay |-> st.currentDay,
                  maxCellHeight |-> minRowHeight ])))

estimateRowContentHeights(entriesByDay, numRows, weekdayOfFirst, daysInMonth, colWidthPt, entryFontSize) ==
    EstimateWalk([ entriesByDay |-> entriesByDay, numRows |-> numRows,
                   weekdayOfFirst |-> weekdayOfFirst, daysInMonth |-> daysInMonth,
                   lineHeight |-> LineHeight(entryFontSize),
                   charsPerLine |-> CharsPerLine(TextWidth(colWidthPt),
                                                 AvgCharWidth(entryFontSize)) ],
                 [ row |-> 0, currentDay |-> 1, rowHeights |-> <<>> ])

\* hs.reduce((sum, h) => sum + h, 0): the heights added from the first on
RECURSIVE SumSeq(_)
SumSeq(hs) ==
    IF hs = <<>> THEN FZero
    ELSE FAdd(SumSeq(SubSeq(hs, 1, Len(hs) - 1)), hs[Len(hs)])

\* Mutant of DistributePass: a pinned row gets the equal share as its height.
RECURSIVE DistributePassPinsShare(_, _, _, _)
DistributePassPinsShare(st, contentHeights, equalShare, i) ==
    IF i > Len(contentHeights) THEN st
    ELSE IF ~st.isFixed[i] /\ FLess(equalShare, contentHeights[i])
         THEN DistributePassPinsShare(
                [ rowHeights |-> [st.rowHeights EXCEPT ![i] = equalShare],
                  isFixed |-> [st.isFixed EXCEPT ![i] = TRUE],
                  remaining |-> FSub(st.remaining, contentHeights[i]),
                  flexCount |-> st.flexCount - 1,
                  changed |-> TRUE,
                  passes |-> st.passes ],
                contentHeights, equalShare, i + 1)
         ELSE DistributePassPinsShare(st, contentHeights, equalShare, i + 1)

\* Mutant of DistributePass: a row is pinned when its content is >= the share.
RECURSIVE DistributePassGreaterEqual(_, _, _, _)
DistributePassGreaterEqual(st, contentHeights, equalShare, i) ==
    IF i > Len(contentHeights) THEN st
    ELSE IF ~st.isFixed[i] /\ FLessEq(equalShare, contentHeights[i])
         THEN DistributePassGreaterEqual(
                [ rowHeights |-> [st.rowHeights EXCEPT ![i] = contentHeights[i]],
                  isFixed |-> [st.isFixed EXCEPT ![i] = TRUE],
                  remaining |-> FSub(st.remaining, contentHeights[i]),
                  flexCount |-> st.flexCount - 1,
                  changed |-> TRUE,
                  passes |-> st.passes ],
                contentHeights, equalShare, i + 1)
         ELSE DistributePassGreaterEqual(st, contentHeights, equalShare, i + 1)

\* Mutant of DistributePass: the pinned height is not taken from remaining.
RECURSIVE DistributePassKeepsRemaining(_, _, _, _)
DistributePassKeepsRemaining(st, contentHeights, equalShare, i) ==
    IF i > Len(contentHeights) THEN st
    ELSE IF ~st.isFixed[i] /\ FLess(equalShare, contentHeights[i])
         THEN DistributePassKeepsRemaining(
                [ rowHeights |-> [st.rowHeights EXCEPT ![i] = contentHeights[i]],
                  isFixed |-> [st.isFixed EXCEPT ![i] = TRUE],
                  remaining |-> st.remaining,
                  flexCount |-> st.flexCount - 1,
                  changed |-> TRUE,
                  passes |-> st.passes ],
                contentHeights, equalShare, i + 1)
         ELSE DistributePassKeepsRemaining(st, contentHeights, equalShare, i + 1)

\* Mutant of DistributePass: a pinned row is not marked fixed.
RECURSIVE DistributePassForgetsFixed(_, _, _, _)
DistributePassForgetsFixed(st, contentHeights, equalShare, i) ==
    IF i > Len(contentHeights) THEN st
    ELSE IF ~st.isFixed[i] /\ FLess(equalShare, contentHeights[i])
         THEN DistributePassForgetsFixed(
                [ rowHeights |-> [st.rowHeights EXCEPT ![i] = contentHeights[i]],
                  isFixed |-> st.isFixed,
                  remaining |-> FSub(st.remaining, contentHeights[i]),
                  flexCount |-> st.flexCount - 1,
                  changed |-> TRUE,
                  passes |-> st.passes ],
                contentHeights, equalShare, i + 1)
         ELSE DistributePassForgetsFixed(st, contentHeights, equalShare, i + 1)

\* One pass of the inner for loop of distributeRowHeights from row i on:
\* equalShare = remaining / flexCount was computed before the pass.
RECURSIVE DistributePass(_, _, _, _)
DistributePass(st, contentHeights, equalShare, i) ==
    IF i > Len(contentHeights) THEN st
    ELSE IF ~st.isFixed[i] /\ FLess(equalShare, contentHeights[i])
         THEN DistributePass(
                [ rowHeights |-> [st.rowHeights EXCEPT ![i] = contentHeights[i]],
                  isFixed |-> [st.isFixed EXCEPT ![i] = TRUE],
                  remaining |-> FSub(st.remaining, contentHeights[i]),
                  flexCount |-> st.flexCount - 1,
                  changed |-> TRUE,
                  passes |-> st.passes ],
                contentHeights, equalShare, i + 1)
         ELSE DistributePass(st, contentHeights, equalShare, i + 1)

\* for (iteration = 0; iteration < numRows; iteration++) { ... }
RECURSIVE DistributeLoop(_, _, _)
RECURSIVE DistributeBreak(_, _, _)
DistributeLoop(st, contentHeights, iteration) ==
    IF iteration >= Len(contentHeights) THEN st
    ELSE DistributeBreak(
            DistributePass([st EXCEPT !.changed = FALSE, !.passes = st.passes + 1],
                           contentHeights, FDiv(st.remaining, FromInt(st.flexCount)), 1),
            contentHeights, iteration)

\* if (!changed) break, after the pass of the iteration
DistributeBreak(after, contentHeights, iteration) ==
    IF ~after.changed THEN after
    ELSE DistributeLoop(after, contentHeights, iteration + 1)

\* Mutant of FinalShare: what is left is divided by the number of all rows.
FinalShareAllRows(st) ==
    IF st.flexCount > 0 THEN FDiv(st.remaining, FromInt(Len(st.isFixed))) ELSE FZero

\* const equalShare = flexCount > 0 ? remaining / flexCount : 0
FinalShare(st) ==
    IF st.flexCount > 0 THEN FDiv(st.remaining, FromInt(st.flexCount)) ELSE FZero

\* for (i...) { if (!isFixed[i]) rowHeights[i] = equalShare }
FillFlexible(st, equalShare) ==
    [st EXCEPT !.rowHeights =
        [i \in DOMAIN st.isFixed |-> IF st.isFixed[i] THEN st.rowHeights[i]
                                     ELSE equalShare]]

\* The rows that are still flexible after the loop get the final share
FinishDistribute(st) == FillFlexible(st, FinalShare(st))

\* distributeRowHeights with its local variables at the return
Distribute(contentHeights, totalAvailable) ==
    FinishDistribute(DistributeLoop(
        [ rowHeights |-> [i \in 1..Len(contentHeights) |-> FZero],
          isFixed |-> [i \in 1..Len(contentHeights) |-> FALSE],
          remaining |-> totalAvailable,
          flexCount |-> Len(contentHeights),
          changed |-> FALSE,
          passes |-> 0 ],
        contentHeights, 0))

distributeRowHeights(contentHeights, totalAvailable) ==
    Distribute(contentHeights, totalAvailable).rowHeights

\* while (entryFontSize >= MIN_FONT_SIZE) { ...; entryFontSize -= 0.5 }
ContentHeightsAt(in, entryFontSize) ==
    estimateRowContentHeights(in.entriesByDay, in.numRows, in.weekdayOfFirst,
                              in.daysInMonth, in.colWidthPt, entryFontSize)

\* return { entryFontSize, rowHeights: distributeRowHeights(contentHeights, gridHeightPt) }
LayoutAt(in, entryFontSize, contentHeights) ==
    [ entryFontSize |-> entryFontSize,
      rowHeights |-> distributeRowHeights(contentHeights, in.gridHeightPt) ]

\* The return after the loop: the layout at MIN_FONT_SIZE
LayoutAtMinimum(in) ==
    LayoutAt(in, FromInt(MIN_FONT_SIZE), ContentHeightsAt(in, FromInt(MIN_FONT_SIZE)))

\* Mutant of LayoutSearch: the font size goes down by a whole point.
RECURSIVE LayoutSearchWholeSteps(_, _)
RECURSIVE LayoutTryWholeSteps(_, _, _)
LayoutSearchWholeSteps(in, entryFontSize) ==
    IF FLessEq(FromInt(MIN_FONT_SIZE), entryFontSize)
    THEN LayoutTryWholeSteps(in, entryFontSize, ContentHeightsAt(in, entryFontSize))
    ELSE LayoutAtMinimum(in)

LayoutTryWholeSteps(in, entryFontSize, contentHeights) ==
    IF FLessEq(SumSeq(contentHeights), in.gridHeightPt)
    THEN LayoutAt(in, entryFontSize, contentHeights)
    ELSE LayoutSearchWholeSteps(in, FSub(entryFontSize, FromInt(1)))

\* The while loop from one font size on: the first size at which the sum of
\* the content heights is <= gridHeightPt, MIN_FONT_SIZE when there is none
RECURSIVE LayoutSearch(_, _)
RECURSIVE LayoutTry(_, _, _)
LayoutSearch(in, entryFontSize) ==
    IF FLessEq(FromInt(MIN_FONT_SIZE), entryFontSize)
    THEN LayoutTry(in, entryFontSize, ContentHeightsAt(in, entryFontSize))
    ELSE LayoutAtMinimum(in)

\* The body of the loop: if (totalContent <= gridHeightPt) return ...;
\* entryFontSize -= 0.5
LayoutTry(in, entryFontSize, contentHeights) ==
    IF FLessEq(SumSeq(contentHeights), in.gridHeightPt)
    THEN LayoutAt(in, entryFontSize, contentHeights)
    ELSE LayoutSearch(in, FSub(entryFontSize, FONT_STEP))

calculateOptimalLayout(entriesByDay, numRows, weekdayOfFirst, daysInMonth, colWidthPt, gridHeightPt) ==
    LayoutSearch([ entriesByDay |-> entriesByDay, numRows |-> numRows,
                   weekdayOfFirst |-> weekdayOfFirst, daysInMonth |-> daysInMonth,
                   colWidthPt |-> colWidthPt, gridHeightPt |-> gridHeightPt ],
                 FromInt(ENTRY_FONT_SIZE))

-----------------------------------------------------------------------------
(* CalendarBuilder: state and public operations *)

MONTH_NAMES_DE ==
    <<"Januar", "Februar", "März", "April", "Mai", "Juni", "Juli", "August",
      "September", "Oktober", "November", "Dezember">>

NoTitle == ""

DEFAULT_MARGINS == [top |-> 10, right |-> 10, bottom |-> 10, left |-> 10]

\* The defaults the constructor spreads the given config over
ConfigDefaults ==
    [ margins |-> DEFAULT_MARGINS, showEndTime |-> FALSE,
      useColors |-> TRUE, showLegend |-> TRUE ]

\* this.config = { margins: ..., showEndTime: false, ..., ...config }
Constructor(given) ==
    [ k \in DOMAIN ConfigDefaults \cup DOMAIN given |->
        IF k \in DOMAIN given THEN given[k] ELSE ConfigDefaults[k] ]

\* Map.get: the category stored under id, or none
HasCategory(cats, id) == \E i \in 1..Len(cats) : cats[i].id = id
GetCategory(cats, id) == cats[CHOOSE i \in 1..Len(cats) : cats[i].id = id]

\* Map.set: a new key goes last, an existing key keeps its place
SetCategory(cats, cat) ==
    IF HasCategory(cats, cat.id)
    THEN [i \in 1..Len(cats) |-> IF cats[i].id = cat.id THEN cat ELSE cats[i]]
    ELSE Append(cats, cat)

\* this.monthNames = config.monthNames || MONTH_NAMES_DE
monthNames ==
    IF "monthNames" \in DOMAIN config THEN config.monthNames ELSE MONTH_NAMES_DE

\* const monthTitle = title || `${this.monthNames[month - 1]} ${year}`;
\* this.pages.push({month, year, title: monthTitle, entries: []})
PushPage(ps, month, year, title) ==
    Append(ps, [ month |-> month, year |-> year,
                 title |-> IF title # NoTitle THEN title
                           ELSE monthNames[month] \o " " \o ToString(year),
                 entries |-> <<>> ])

\* Mutant of PushEntry: the entry goes to the first page, not the current one.
PushEntryFirstPage(ps, entry) ==
    [ps EXCEPT ![1].entries = Append(ps[1].entries, entry)]

\* this.getCurrentPage().entries.push(entry)
PushEntry(ps, entry) ==
    [ps EXCEPT ![Len(ps)].entries = Append(ps[Len(ps)].entries, entry)]

TotalEntries(ps) ==
    LET RECURSIVE Sum(_)
        Sum(i) == IF i = 0 THEN 0 ELSE Sum(i - 1) + Len(ps[i].entries)
    IN  Sum(Len(ps))

NoOutput == <<>>

addMonth(month, year, title) ==
    /\ pages' = PushPage(pages, month, year, title)
    /\ lastOp' = "addMonth"
    /\ error' = "none"
    /\ output' = NoOutput
    /\ UNCHANGED <<categories, config>>

addCategory(id, name, textColor, bgColor) ==
    /\ categories' = SetCategory(categories,
                        [ id |-> id, name |-> name,
                          textColor |-> html2rgb(textColor),
                          bgColor |-> html2rgb(bgColor) ])
    /\ lastOp' = "addCategory"
    /\ error' = "none"
    /\ output' = NoOutput
    /\ UNCHANGED <<pages, config>>

\* Mutant of AddEntryBody: without a page the call returns silently.
AddEntryBodyNoThrow(startDate, endDate, message, textColor, bgColor) ==
    IF Len(pages) = 0
    THEN /\ error' = "none"
         /\ UNCHANGED pages
    ELSE /\ error' = "none"
         /\ pages' = PushEntry(pages,
                CalendarEntry(startDate, endDate, message, textColor, bgColor))

\* The body of addEntry, shared by addEntry and addEntryWithCategory.
AddEntryBody(startDate, endDate, message, textColor, bgColor) ==
    IF Len(pages) = 0
    THEN /\ error' = "NoPage"
         /\ UNCHANGED pages
    ELSE /\ error' = "none"
         /\ pages' = PushEntry(pages,
                CalendarEntry(startDate, endDate, message, textColor, bgColor))

addEntry(startDate, endDate, message, textColor, bgColor) ==
    /\ AddEntryBody(startDate, endDate, message, textColor, bgColor)
    /\ lastOp' = "addEntry"
    /\ output' = NoOutput
    /\ UNCHANGED <<categories, config>>

\* Mutant of addEntryWithCategory: an unknown category id is an error.
addEntryWithCategoryStrict(startDate, endDate, message, categoryId) ==
    /\ IF HasCategory(categories, categoryId)
       THEN LET category == GetCategory(categories, categoryId)
            IN  AddEntryBody(startDate, endDate, message,
                             category.textColor, category.bgColor)
       ELSE error' = "UnknownCategory" /\ UNCHANGED pages
    /\ lastOp' = "addEntryWithCategory"
    /\ output' = NoOutput
    /\ UNCHANGED <<categories, config>>

addEntryWithCategory(startDate, endDate, message, categoryId) ==
    /\ IF HasCategory(categories, categoryId)
       THEN LET category == GetCategory(categories, categoryId)
            IN  AddEntryBody(startDate, endDate, message,
                             category.textColor, category.bgColor)
       ELSE AddEntryBody(startDate, endDate, message, HexBlack, HexWhite)
    /\ lastOp' = "addEntryWithCategory"
    /\ output' = NoOutput
    /\ UNCHANGED <<categories, config>>

-----------------------------------------------------------------------------
(* CalendarBuilder: generate *)

PageBreak == [text |-> "", pageBreak |-> "before"]

IsPageBreak(el) == "pageBreak" \in DOMAIN el

TITLE_FONT_SIZE == 16
HEADER_FONT_SIZE == 10
LEGEND_FONT_SIZE == 8
FOOTER_FONT_SIZE == 7
HEADER_BG_COLOR == "#808080"
BLANK_BG_COLOR == "#F5F5F5"
DAY_BG_COLOR == "#FFFFFF"
cellPad == 2
safetyMarginPt == 5

DAY_NAMES_SHORT_DE == <<"So", "Mo", "Di", "Mi", "Do", "Fr", "Sa">>

\* Mutant of rotateDayNames: the last name is moved to the front.
RECURSIVE rotateDayNamesBackwards(_, _)
rotateDayNamesBackwards(names, weekStarts) ==
    IF weekStarts = 0 THEN names
    ELSE rotateDayNamesBackwards(
            <<names[Len(names)]>> \o SubSeq(names, 1, Len(names) - 1), weekStarts - 1)

\* for (i = 0; i < weekStarts; i++) rotated.push(rotated.shift())
RECURSIVE rotateDayNames(_, _)
rotateDayNames(names, weekStarts) ==
    IF weekStarts = 0 THEN names
    ELSE rotateDayNames(Append(Tail(names), Head(names)), weekStarts - 1)

\* this.dayNames = config.dayNames || this.rotateDayNames(...)
dayNames ==
    IF "dayNames" \in DOMAIN config THEN config.dayNames
    ELSE rotateDayNames(DAY_NAMES_SHORT_DE, config.weekStarts)

\* Page sizes in mm
PAGE_SIZES ==
    [ A2 |-> [width |-> 420, height |-> 594], A3 |-> [width |-> 297, height |-> 420],
      A4 |-> [width |-> 210, height |-> 297], A5 |-> [width |-> 148, height |-> 210] ]

\* The literal 2.83465
PointsPerMm == Dec(283465, 100000)

\* mm * 2.83465
mmToPt(mm) == FMul(FromInt(mm), PointsPerMm)

\* The colour string of an RGB triple: its six hex digits
rgbToHex(rgb) ==
    << rgb[1] \div 16, rgb[1] % 16, rgb[2] \div 16, rgb[2] % 16,
       rgb[3] \div 16, rgb[3] % 16 >>

\* timeStr.replace('h ', ''): the first 'h ' is taken out
RECURSIVE ReplaceHSpace(_, _)
ReplaceHSpace(timeStr, i) ==
    IF i + 1 > Len(timeStr) THEN timeStr
    ELSE IF SubSeq(timeStr, i, i + 1) = "h "
         THEN SubSeq(timeStr, 1, i - 1) \o SubSeq(timeStr, i + 2, Len(timeStr))
         ELSE ReplaceHSpace(timeStr, i + 1)

\* The text of an entry: the time, when shown, in front of the message
EntryText(entry) ==
    LET startStr == IF ~entry.hideStartTime /\ ~isAllDay(entry)
                    THEN getFormattedStartTime(entry) ELSE ""
        withEnd == ~entry.hideStartTime /\ ~isAllDay(entry)
                   /\ config.showEndTime /\ entry.endDate # Null /\ ~entry.hideEndTime
                   /\ getFormattedEndTime(entry) # ""
        timeStr == IF withEnd
                   THEN ReplaceHSpace(startStr, 1) \o "-" \o getFormattedEndTime(entry) \o " "
                   ELSE startStr
    IN  timeStr \o entry.message

\* Mutant of buildEntryContent: the cell shows the message without the time.
buildEntryContentNoTime(entry, entryFontSize, isLast) ==
    [ table |-> [ widths |-> <<"*">>,
                  body |-> << << [ text |-> entry.message,
                                   fontSize |-> entryFontSize,
                                   color |-> rgbToHex(entry.textColor),
                                   fillColor |-> rgbToHex(entry.bgColor) ] >> >> ],
      hLineWidth |-> [i \in 0..1 |-> IF i > 0 /\ ~isLast THEN OneHalf ELSE FZero] ]

\* A one-cell table; a line is drawn below every entry but the cell's last
buildEntryContent(entry, entryFontSize, isLast) ==
    [ table |-> [ widths |-> <<"*">>,
                  body |-> << << [ text |-> EntryText(entry),
                                   fontSize |-> entryFontSize,
                                   color |-> rgbToHex(entry.textColor),
                                   fillColor |-> rgbToHex(entry.bgColor) ] >> >> ],
      hLineWidth |-> [i \in 0..1 |-> IF i > 0 /\ ~isLast THEN OneHalf ELSE FZero] ]

\* Math.max(0, contentAreaHeight - dayNumHeight), with
\* contentAreaHeight = rowHeight - 2 * cellPad
YShift(rowHeight) ==
    FMax(FZero, FSub(FSub(rowHeight, FromInt(2 * cellPad)), dayNumberHeight))

\* The day number first, then the entries in the order given
buildDayCellContent(day, entries, entryFontSize, rowHeight) ==
    [ stack |-> << [ text |-> ToString(day), style |-> "dayNumber",
                     alignment |-> "right",
                     relativePosition |-> [x |-> FZero, y |-> YShift(rowHeight)] ] >>
                \o [ i \in 1..Len(entries) |->
                        buildEntryContent(entries[i], entryFontSize, i = Len(entries)) ],
      fillColor |-> DAY_BG_COLOR,
      margin |-> [k \in 1..4 |-> FromInt(cellPad)] ]

BlankCell == [text |-> "", fillColor |-> BLANK_BG_COLOR, margin |-> [k \in 1..4 |-> FromInt(2)]]

\* Mutant of TableRow: the cells after the last day are not emitted.
RECURSIVE TableRowNoTrailingCells(_, _, _)
TableRowNoTrailingCells(in, row, st) ==
    IF st.col = 7 THEN st
    ELSE IF row = 0 /\ st.col < in.weekdayOfFirst
         THEN TableRowNoTrailingCells(in, row,
                 [st EXCEPT !.col = st.col + 1,
                            !.tableRow = Append(st.tableRow, BlankCell)])
    ELSE IF st.currentDay > in.daysInMonth
         THEN TableRowNoTrailingCells(in, row, [st EXCEPT !.col = st.col + 1])
    ELSE TableRowNoTrailingCells(in, row,
            [ col |-> st.col + 1,
              currentDay |-> st.currentDay + 1,
              tableRow |-> Append(st.tableRow,
                  buildDayCellContent(st.currentDay, in.entriesByDay[st.currentDay],
                                      in.entryFontSize, in.rowHeights[row + 1])) ])

\* The inner loop of buildPageContent over the columns of one calendar row,
\* on its variables st = [col, currentDay, tableRow]: a blank cell in front
\* of the first day and behind the last one
RECURSIVE TableRow(_, _, _)
TableRow(in, row, st) ==
    IF st.col = 7 THEN st
    ELSE IF (row = 0 /\ st.col < in.weekdayOfFirst) \/ st.currentDay > in.daysInMonth
         THEN TableRow(in, row,
                 [st EXCEPT !.col = st.col + 1,
                            !.tableRow = Append(st.tableRow, BlankCell)])
    ELSE TableRow(in, row,
            [ col |-> st.col + 1,
              currentDay |-> st.currentDay + 1,
              tableRow |-> Append(st.tableRow,
                  buildDayCellContent(st.currentDay, in.entriesByDay[st.currentDay],
                                      in.entryFontSize, in.rowHeights[row + 1])) ])

\* tableBody.push(tableRow) after the inner loop of the row
TablePush(st, after) ==
    [ row |-> st.row + 1,
      currentDay |-> after.currentDay,
      tableBody |-> Append(st.tableBody, after.tableRow) ]

\* The outer loop over the calendar rows, on its variables
\* st = [row, currentDay, tableBody]
RECURSIVE TableWalk(_, _)
TableWalk(in, st) ==
    IF st.row = in.numRows THEN st.tableBody
    ELSE TableWalk(in,
            TablePush(st, TableRow(in, st.row,
                [ col |-> 0, currentDay |-> st.currentDay, tableRow |-> <<>> ])))

\* Mutant of LegendChunk: the slice is one category too long.
LegendChunkOfEight(i) ==
    SubSeq(categories, i + 1, IF i + 8 < Len(categories) THEN i + 8 ELSE Len(categories))

\* The categories of the legend row that starts at category i (from 0)
LegendChunk(i) ==
    SubSeq(categories, i + 1, IF i + 7 < Len(categories) THEN i + 7 ELSE Len(categories))

\* lineHeight = LEGEND_FONT_SIZE * 1.4 and avgCharWidth = LEGEND_FONT_SIZE * 0.5
legendLineHeight == FMul(FromInt(LEGEND_FONT_SIZE), OnePointFour)
legendAvgCharWidth == FMul(FromInt(LEGEND_FONT_SIZE), OneHalf)

\* Math.ceil(cat.name.length / charsPerLine), with
\* charsPerLine = Math.max(1, Math.floor(textWidth / avgCharWidth)) and
\* textWidth = cellWidth - cellPadH
LegendLineCount(cat, cellWidth) ==
    CeilDiv(Len(cat.name),
            Max(1, FFloor(FDiv(FSub(cellWidth, FromInt(4)), legendAvgCharWidth))))

RECURSIVE MaxOf(_)
MaxOf(ns) == IF ns = <<>> THEN 0 ELSE Max(Head(ns), MaxOf(Tail(ns)))

\* The cell of one category: spare = maxContentHeight - cellContentHeight,
\* extraTop of it above the text and extraBottom = spare - extraTop below
LegendCell(cat, spare, extraTop) ==
    [ stack |-> << [ text |-> cat.name,
                     fontSize |-> FromInt(LEGEND_FONT_SIZE),
                     color |-> rgbToHex(cat.textColor),
                     alignment |-> "center",
                     margin |-> << FromInt(2), FAdd(FromInt(2), extraTop),
                                   FromInt(2), FAdd(FromInt(2), FSub(spare, extraTop)) >> ] >>,
      fillColor |-> rgbToHex(cat.bgColor) ]

\* The cells of one legend row: a cell of fewer lines than the row's tallest
\* gets half of the difference above and the rest below
RECURSIVE LegendRow(_, _, _, _)
LegendRow(chunk, lineCounts, maxContentHeight, k) ==
    IF k > Len(chunk) THEN <<>>
    ELSE <<LegendCell(chunk[k],
                      FSub(maxContentHeight, FMul(FromInt(lineCounts[k]), legendLineHeight)),
                      FDiv(FSub(maxContentHeight,
                                FMul(FromInt(lineCounts[k]), legendLineHeight)),
                           FromInt(2)))>>
         \o LegendRow(chunk, lineCounts, maxContentHeight, k + 1)

\* lineCounts = chunk.map(...)
RECURSIVE LegendLineCounts(_, _, _)
LegendLineCounts(chunk, cellWidth, k) ==
    IF k > Len(chunk) THEN <<>>
    ELSE <<LegendLineCount(chunk[k], cellWidth)>> \o LegendLineCounts(chunk, cellWidth, k + 1)

\* The table of one legend row with its line counts
LegendTableOf(i, chunk, cellWidth, lineCounts) ==
    [ table |->
        [ widths |-> [k \in 1..Len(chunk) |-> cellWidth],
          body |-> << LegendRow(chunk, lineCounts,
                                FMul(FromInt(MaxOf(lineCounts)), legendLineHeight), 1) >> ],
      margin |-> <<FZero, IF i = 0 THEN FromInt(4) ELSE FZero, FZero, FZero>> ]

\* The table of the chunk in cells of the width cellWidth
LegendTableWide(i, chunk, cellWidth) ==
    LegendTableOf(i, chunk, cellWidth, LegendLineCounts(chunk, cellWidth, 1))

\* One legend row: a table of one row of up to 7 cells, each of the width
\* cellWidth = colWidthPt * 7 / chunk.length
LegendTable(i, colWidthPt) ==
    LegendTableWide(i, LegendChunk(i),
                    FDiv(FMul(colWidthPt, FromInt(7)), FromInt(Len(LegendChunk(i)))))

\* for (i = 0; i < categories.length; i += 7) tables.push(...)
RECURSIVE LegendTables(_, _)
LegendTables(i, colWidthPt) ==
    IF i >= Len(categories) THEN <<>>
    ELSE <<LegendTable(i, colWidthPt)>> \o LegendTables(i + 7, colWidthPt)

buildLegend(colWidthPt) == [stack |-> LegendTables(0, colWidthPt)]

\* fontSize * 1.4 + margin of the title, the header row and the footer
titleHeightPt == FAdd(FMul(FromInt(TITLE_FONT_SIZE), OnePointFour), FromInt(8))
headerRowHeightPt == FAdd(FMul(FromInt(HEADER_FONT_SIZE), OnePointFour), FromInt(8))
footerHeightPt == FAdd(FMul(FromInt(FOOTER_FONT_SIZE), OnePointFour), FromInt(4))

\* The height of one legend row: LEGEND_FONT_SIZE * 1.4 + 12
legendRowHeightPt == FAdd(FMul(FromInt(LEGEND_FONT_SIZE), OnePointFour), FromInt(12))

\* numLegendRows > 0 ? numLegendRows * (LEGEND_FONT_SIZE * 1.4 + 12) : 0
LegendHeightPt(numLegendRows) ==
    IF numLegendRows > 0 THEN FMul(FromInt(numLegendRows), legendRowHeightPt) ELSE FZero

\* mmToPt(pageHeightMm - margins.top - margins.bottom)
AvailableHeightPt ==
    LET pageSizeMm == IF config.pageSize \in DOMAIN PAGE_SIZES
                      THEN PAGE_SIZES[config.pageSize] ELSE PAGE_SIZES.A4
        pageHeightMm == IF config.orientation = "landscape"
                        THEN pageSizeMm.width ELSE pageSizeMm.height
    IN  mmToPt(pageHeightMm - config.margins.top - config.margins.bottom)

\* The height left for the calendar rows: the height between the margins
\* less the title, the header row, the legend, the footer, the grid borders
\* and the safety margin, taken off one after the other
GridHeightPt(numRows, showLegend) ==
    FSub(FSub(FSub(FSub(FSub(FSub(AvailableHeightPt, titleHeightPt),
                             headerRowHeightPt),
                        LegendHeightPt(IF showLegend THEN CeilDiv(Len(categories), 7)
                                       ELSE 0)),
                   footerHeightPt),
              FMul(FromInt(numRows + 2), OneHalf)),
         FromInt(safetyMarginPt))

\* The width of a day column: a seventh of the width between the margins
ColWidthPt ==
    LET pageSizeMm == IF config.pageSize \in DOMAIN PAGE_SIZES
                      THEN PAGE_SIZES[config.pageSize] ELSE PAGE_SIZES.A4
        pageWidthMm == IF config.orientation = "landscape"
                       THEN pageSizeMm.height ELSE pageSizeMm.width
    IN  FDiv(mmToPt(pageWidthMm - config.margins.left - config.margins.right),
             FromInt(7))

\* What buildPageContent works out of the page before the layout
PageGrid(page) ==
    [ entriesByDay |-> groupEntriesByDay(sortEntries(
                           expandMultiDayEntries(page.entries, page.month, page.year))),
      daysInMonth |-> getDaysInMonth(page.year, page.month),
      weekdayOfFirst |-> getFirstDayWeekday(page.year, page.month, config.weekStarts),
      numRows |-> getWeeksInMonth(page.year, page.month, config.weekStarts),
      showLegend |-> config.showLegend /\ Len(categories) > 0,
      colWidthPt |-> ColWidthPt ]

\* { entryFontSize, rowHeights } = this.calculateOptimalLayout(...)
PageLayout(in) ==
    calculateOptimalLayout(in.entriesByDay, in.numRows, in.weekdayOfFirst, in.daysInMonth,
                           in.colWidthPt, GridHeightPt(in.numRows, in.showLegend))

headerRow ==
    [ c \in 1..7 |-> [ text |-> dayNames[c], style |-> "dayHeader",
                       alignment |-> "center", fillColor |-> HEADER_BG_COLOR ] ]

\* The calendar table: the header row and the calendar rows in columns of
\* colWidthPt and rows of the heights of the layout
CalendarTable(in, layout) ==
    [ table |-> [ headerRows |-> 1,
                  widths |-> <<in.colWidthPt, in.colWidthPt, in.colWidthPt, in.colWidthPt,
                               in.colWidthPt, in.colWidthPt, in.colWidthPt>>,
                  heights |-> <<headerRowHeightPt>> \o layout.rowHeights,
                  body |-> TableWalk([ entriesByDay |-> in.entriesByDay,
                                       numRows |-> in.numRows,
                                       weekdayOfFirst |-> in.weekdayOfFirst,
                                       daysInMonth |-> in.daysInMonth,
                                       entryFontSize |-> layout.entryFontSize,
                                       rowHeights |-> layout.rowHeights ],
                                     [ row |-> 0, currentDay |-> 1,
                                       tableBody |-> <<headerRow>> ]) ] ]

\* One unbreakable stack of the title, the calendar table, the legend when
\* shown, and the footer.  The footer's text is the wall-clock time of the
\* call and is left out.
ContentStack(page, in, layout) ==
    << [ stack |-> << [ text |-> page.title, style |-> "title", alignment |-> "center" ],
                      CalendarTable(in, layout) >>
                   \o (IF in.showLegend THEN <<buildLegend(in.colWidthPt)>> ELSE <<>>)
                   \o << [ style |-> "footer", alignment |-> "right" ] >>,
         unbreakable |-> TRUE ] >>

PageContent(page, in) == ContentStack(page, in, PageLayout(in))

\* The content of one page
buildPageContent(page) == PageContent(page, PageGrid(page))

-----------------------------------------------------------------------------
(* GridCalculator: calculateGrid.  The GridConfig holds whole millimetres;  *)
(* the cell sizes and positions are doubles.                                *)

\* The cell of the day currentDay at row and col
CellAt(in, row, col, currentDay) ==
    [ day |-> currentDay,
      x |-> FAdd(FromInt(in.gridLeft), FMul(FromInt(col), in.cellWidth)),
      y |-> FAdd(FromInt(in.gridTop), FMul(FromInt(row), in.cellHeight)),
      width |-> in.cellWidth,
      height |-> in.cellHeight,
      row |-> row,
      col |-> col ]

\* Mutant of GridRow: the first row skips one column more.
RECURSIVE GridRowSkipsOneMore(_, _, _)
GridRowSkipsOneMore(in, row, st) ==
    IF st.col = in.numCols THEN st
    ELSE IF row = 0 /\ st.col <= in.weekdayOfFirst
         THEN GridRowSkipsOneMore(in, row, [st EXCEPT !.col = st.col + 1])
    ELSE IF st.currentDay > in.daysInMonth THEN st
    ELSE GridRowSkipsOneMore(in, row,
            [ col |-> st.col + 1,
              currentDay |-> st.currentDay + 1,
              cells |-> Append(st.cells, CellAt(in, row, st.col, st.currentDay)) ])

\* The inner loop of calculateGrid over the columns of one row, on its
\* variables st = [col, currentDay, cells]: `continue` in front of the first
\* day, `break` out of the row behind the last day
RECURSIVE GridRow(_, _, _)
GridRow(in, row, st) ==
    IF st.col = in.numCols THEN st
    ELSE IF row = 0 /\ st.col < in.weekdayOfFirst
         THEN GridRow(in, row, [st EXCEPT !.col = st.col + 1])
    ELSE IF st.currentDay > in.daysInMonth THEN st
    ELSE GridRow(in, row,
            [ col |-> st.col + 1,
              currentDay |-> st.currentDay + 1,
              cells |-> Append(st.cells, CellAt(in, row, st.col, st.currentDay)) ])

\* The variables of the outer loop after the inner loop of a row
GridNextRow(st, after) ==
    [ row |-> st.row + 1, currentDay |-> after.currentDay, cells |-> after.cells ]

\* The outer loop of calculateGrid over the rows, on its variables
\* st = [row, currentDay, cells]
RECURSIVE GridWalk(_, _)
GridWalk(in, st) ==
    IF st.row = in.numRows THEN st.cells
    ELSE GridWalk(in,
            GridNextRow(st, GridRow(in, st.row,
                [ col |-> 0, currentDay |-> st.currentDay, cells |-> st.cells ])))

calculateGrid(gridConfig) ==
    LET daysInMonth == getDaysInMonth(gridConfig.year, gridConfig.month)
        weekdayOfFirst ==
            getFirstDayWeekday(gridConfig.year, gridConfig.month, gridConfig.weekStarts)
        numRows == getWeeksInMonth(gridConfig.year, gridConfig.month, gridConfig.weekStarts)
        numCols == 7
        gridWidth == gridConfig.pageWidth - gridConfig.margins.left - gridConfig.margins.right
        gridHeight == gridConfig.pageHeight - gridConfig.margins.top
                        - gridConfig.margins.bottom - gridConfig.titleHeight
                        - gridConfig.headerHeight - gridConfig.legendHeight
        gridTop == gridConfig.margins.top + gridConfig.titleHeight + gridConfig.headerHeight
        gridLeft == gridConfig.margins.left
        cellWidth == FDiv(FromInt(gridWidth), FromInt(numCols))
        cellHeight == FDiv(FromInt(gridHeight), FromInt(numRows))
        in == [ numRows |-> numRows, numCols |-> numCols,
                weekdayOfFirst |-> weekdayOfFirst, daysInMonth |-> daysInMonth,
                cellWidth |-> cellWidth, cellHeight |-> cellHeight,
                gridTop |-> gridTop, gridLeft |-> gridLeft ]
    IN  [ cells |-> GridWalk(in, [ row |-> 0, currentDay |-> 1, cells |-> <<>> ]),
          numRows |-> numRows,
          numCols |-> numCols,
          cellWidth |-> cellWidth,
          cellHeight |-> cellHeight,
          rowHeights |-> [r \in 1..numRows |-> in.cellHeight],
          gridWidth |-> gridWidth,
          gridHeight |-> gridHeight,
          gridTop |-> gridTop,
          gridLeft |-> gridLeft ]

-----------------------------------------------------------------------------
(* CalendarBuilder: the content of all pages *)

\* Mutant of GenerateContent: a page break before every page, the first too.
RECURSIVE GenerateContentBreakAll(_, _)
GenerateContentBreakAll(ps, i) ==
    IF i > Len(ps) THEN <<>>
    ELSE <<PageBreak>> \o buildPageContent(ps[i])
         \o GenerateContentBreakAll(ps, i + 1)

\* for (i = 0; i < pages.length; i++) { if (i > 0) push(break); push(...page) }
RECURSIVE GenerateContent(_, _)
GenerateContent(ps, i) ==
    IF i > Len(ps) THEN <<>>
    ELSE (IF i > 1 THEN <<PageBreak>> ELSE <<>>)
         \o buildPageContent(ps[i])
         \o GenerateContent(ps, i + 1)

\* The page list when every page's content has been built: the pages keep
\* their place and header, their entry objects hold what the build wrote.
PagesAfterBuild(ps) ==
    [ i \in 1..Len(ps) |->
        [ps[i] EXCEPT !.entries = StoredAfterExpand(ps[i].entries, ps[i].month, ps[i].year)] ]

\* Mutant of generate: no check for an empty page list.
generateUnchecked ==
    /\ lastOp' = "generate"
    /\ UNCHANGED <<categories, config>>
    /\ error' = "none"
    /\ output' = GenerateContent(pages, 1)
    /\ pages' = PagesAfterBuild(pages)

generate ==
    /\ lastOp' = "generate"
    /\ UNCHANGED <<categories, config>>
    /\ IF Len(pages) = 0
       THEN /\ error' = "NoPages"
            /\ output' = NoOutput
            /\ UNCHANGED pages
       ELSE /\ error' = "none"
            /\ output' = GenerateContent(pages, 1)
            /\ pages' = PagesAfterBuild(pages)

-----------------------------------------------------------------------------
(* The builder driven by arbitrary callers *)

\* addMonth(month, year, title) calls: one without and one with a title
MonthCalls == {<<1, 2024, NoTitle>>, <<2, 2024, "Plan">>}
CategoryIds == {"k1"}
CategoryNames == {"Chor"}
UnknownCategoryId == "zz"
Messages == {"Fest"}
StartDates == {MkDate(2024, 0, 30, 18, 0)}
EndDates == {Null, MkDate(2024, 1, 2, 9, 0)}

\* The configuration a caller constructs the builder with
Configs == { [orientation |-> "portrait", pageSize |-> "A4", weekStarts |-> 1] }

Init ==
    /\ config \in {Constructor(c) : c \in Configs}
    /\ pages = <<>>
    /\ categories = <<>>
    /\ lastOp = "new"
    /\ error = "none"
    /\ output = NoOutput
    /\ call = <<>>
    /\ result = <<>>
    /\ done = FALSE

AddMonth ==
    /\ Len(pages) < MaxPages
    /\ \E c \in MonthCalls :
          addMonth(c[1], c[2], c[3]) /\ UNCHANGED helperVars

AddCategory ==
    \E id \in CategoryIds, n \in CategoryNames :
        addCategory(id, n, HexWhite, HexRed) /\ UNCHANGED helperVars

AddEntry ==
    /\ TotalEntries(pages) < MaxEntries
    /\ \E s \in StartDates, e \in EndDates, msg \in Messages :
          addEntry(s, e, msg, HexBlack, HexWhite) /\ UNCHANGED helperVars

AddEntryWithCategory ==
    /\ TotalEntries(pages) < MaxEntries
    /\ \E s \in StartDates, e \in EndDates, msg \in Messages,
          id \in CategoryIds \cup {UnknownCategoryId} :
          addEntryWithCategory(s, e, msg, id) /\ UNCHANGED helperVars

Generate == generate /\ UNCHANGED helperVars

Next ==
    \/ AddMonth
    \/ AddCategory
    \/ AddEntry
    \/ AddEntryWithCategory
    \/ Generate

Spec == Init /\ [][Next]_vars

-----------------------------------------------------------------------------
(* Claims about the builder's public operations (specification Spec) *)

DefaultTextColor == <<0, 0, 0>>
DefaultBgColor == <<255, 255, 255>>

CurrentPage(ps) == ps[Len(ps)]
LastEntry(ps) == CurrentPage(ps).entries[Len(CurrentPage(ps).entries)]

\* The step appended exactly one entry to the current page and changed
\* nothing else of the page list.
AppendedOneEntry ==
    /\ Len(pages') = Len(pages)
    /\ \A i \in 1..(Len(pages) - 1) : pages'[i] = pages[i]
    /\ CurrentPage(pages').month = CurrentPage(pages).month
    /\ CurrentPage(pages').year = CurrentPage(pages).year
    /\ CurrentPage(pages').title = CurrentPage(pages).title
    /\ Len(CurrentPage(pages').entries) = Len(CurrentPage(pages).entries) + 1
    /\ SubSeq(CurrentPage(pages').entries, 1, Len(CurrentPage(pages).entries))
         = CurrentPage(pages).entries

\* C1: addEntry on a builder without a month fails with the no-page error
\* and leaves the page list empty and the categories as they were.
C1_AddEntryWithoutMonthFails ==
    [][(lastOp' = "addEntry" /\ Len(pages) = 0)
         => (error' = "NoPage" /\ pages' = <<>> /\ categories' = categories)]_vars

C1_Witness ==
    /\ lastOp = "addEntry"
    /\ error = "NoPage"
    /\ pages = <<>>
    /\ categories # <<>>

\* C2: generate with zero pages fails with the no-pages error and hands
\* nothing to the renderer; with at least one page it never fails with it.
C2_GenerateNeedsPages ==
    lastOp = "generate" =>
        /\ (Len(pages) = 0 => (error = "NoPages" /\ output = NoOutput))
        /\ (Len(pages) > 0 => (error = "none" /\ output # NoOutput))

C2_Witness ==
    /\ lastOp = "generate"
    /\ error = "NoPages"
    /\ output = NoOutput
    /\ categories # <<>>

\* C3: with a month added, addEntryWithCategory never fails: it appends
\* exactly one entry to the current page, coloured black on white for an
\* unregistered id and with the category's colours for a registered id.
C3_UnknownCategoryFallsBack ==
    [][\A s \in StartDates, e \in EndDates, msg \in Messages,
          id \in CategoryIds \cup {UnknownCategoryId} :
          (addEntryWithCategory(s, e, msg, id) /\ Len(pages) > 0)
            => /\ error' = "none"
               /\ AppendedOneEntry
               /\ IF HasCategory(categories, id)
                  THEN /\ LastEntry(pages').textColor
                            = GetCategory(categories, id).textColor
                       /\ LastEntry(pages').bgColor
                            = GetCategory(categories, id).bgColor
                  ELSE /\ LastEntry(pages').textColor = DefaultTextColor
                       /\ LastEntry(pages').bgColor = DefaultBgColor]_vars

C3_Witness ==
    /\ lastOp = "addEntryWithCategory"
    /\ error = "none"
    /\ categories = <<>>
    /\ Len(pages) > 0
    /\ Len(CurrentPage(pages).entries) > 0
    /\ LastEntry(pages).textColor = DefaultTextColor
    /\ LastEntry(pages).bgColor = DefaultBgColor

\* C4: a successful addEntry appends one entry to the page of the most
\* recent addMonth and changes no other page, no page header and no
\* category; addMonth appends one empty page and changes no existing page.
C4_AddEntryFrame ==
    [][/\ (lastOp' = "addEntry" /\ error' = "none")
            => (AppendedOneEntry /\ categories' = categories)
       /\ lastOp' = "addMonth"
            => /\ Len(pages') = Len(pages) + 1
               /\ SubSeq(pages', 1, Len(pages)) = pages
               /\ CurrentPage(pages').entries = <<>>
               /\ categories' = categories]_vars

C4_Witness ==
    /\ lastOp = "addEntry"
    /\ error = "none"
    /\ Len(pages) = 2
    /\ Len(pages[1].entries) = 1
    /\ Len(pages[2].entries) = 1

\* C5: for n >= 1 pages the content handed to the renderer holds the n page
\* blocks in addMonth order with a page break right before every block but
\* the first: 2n - 1 elements, breaks at the even places only.
C5_PageBreaksBetweenPages ==
    (lastOp = "generate" /\ Len(pages) >= 1) =>
        /\ Len(output) = 2 * Len(pages) - 1
        /\ \A i \in 1..Len(pages) :
              /\ ~IsPageBreak(output[2 * i - 1])
              /\ <<output[2 * i - 1]>> = buildPageContent(pages[i])
        /\ \A i \in 1..(Len(pages) - 1) : output[2 * i] = PageBreak

C5_Witness ==
    /\ lastOp = "generate"
    /\ Len(pages) = 2
    /\ Len(output) = 3
    /\ pages[1].month # pages[2].month

\* The expansion on objects yields the entries the expansion on values does.
ObjectsAgree(page) ==
    ExpandedOf(ExpandObjects(page.entries, page.month, page.year))
        = expandMultiDayEntries(page.entries, page.month, page.year)

\* C16: generate leaves the page list, every stored entry with all its
\* fields, the categories and the configuration as they were (the flags and
\* '...' markers go to the clones it renders), and a generate right after a
\* generate hands the renderer the same content: same font size, row
\* heights and cell contents.
C16_GenerateLeavesBuilderUnchanged ==
    [][lastOp' = "generate" =>
         /\ pages' = pages
         /\ categories' = categories
         /\ config' = config
         /\ \A i \in 1..Len(pages) : ObjectsAgree(pages[i])
         /\ (lastOp = "generate" /\ error = "none") => output' = output]_vars

\* A generate over a stored multi-day appointment: its page shows a
\* continuation while the stored entry is as it was added.
C16_Witness ==
    /\ lastOp = "generate"
    /\ error = "none"
    /\ Len(pages) = 2
    /\ Len(pages[2].entries) = 1
    /\ isSpanningDays(pages[2].entries[1])
    /\ pages[2].entries[1].message = "Fest"
    /\ ~pages[2].entries[1].isContinuation
    /\ \E i \in 1..Len(expandMultiDayEntries(pages[2].entries, pages[2].month, pages[2].year)) :
          expandMultiDayEntries(pages[2].entries, pages[2].month, pages[2].year)[i].isContinuation

-----------------------------------------------------------------------------
(* expandMultiDayEntries on one stored appointment (specification SpecExpand) *)

\* The first day of each window of appointment days: one window crosses a
\* month end, the other a year end.
WindowStarts == {MkDate(2024, 0, 30, 0, 0), MkDate(2024, 11, 30, 0, 0)}
TimesOfDay == {<<0, 0>>, <<9, 0>>, <<18, 30>>}
ExpandPages == {<<1, 2024>>, <<2, 2024>>, <<12, 2024>>, <<1, 2025>>}

RECURSIVE AddDays(_, _)
AddDays(d, n) == IF n = 0 THEN d ELSE AddDays(AddOneDay(d), n - 1)

AtTime(d, t) == [d EXCEPT !.hours = t[1], !.minutes = t[2]]

WindowDates(w) ==
    {AtTime(AddDays(w, n), t) : n \in 0..MaxSpanDays, t \in TimesOfDay}

BuilderIdle ==
    /\ config = Constructor([orientation |-> "portrait", pageSize |-> "A4", weekStarts |-> 1])
    /\ pages = <<>>
    /\ categories = <<>>
    /\ lastOp = "new"
    /\ error = "none"
    /\ output = NoOutput

InitExpand ==
    /\ BuilderIdle
    /\ \E w \in WindowStarts, p \in ExpandPages :
         \E s \in WindowDates(w), e \in WindowDates(w) \cup {Null} :
            call = [ entries |-> <<CalendarEntry(s, e, "Fest", HexBlack, HexWhite)>>,
                     month |-> p[1], year |-> p[2] ]
    /\ result = <<>>
    /\ done = FALSE

ExpandMultiDayEntries ==
    /\ ~done
    /\ result' = expandMultiDayEntries(call.entries, call.month, call.year)
    /\ done' = TRUE
    /\ UNCHANGED <<call, builderVars>>

NextExpand == ExpandMultiDayEntries

SpecExpand == InitExpand /\ [][NextExpand]_vars

\* The calendar days of the page's month from the appointment's start day to
\* its end day inclusive, whatever the times of day.
DayNumbersInMonth(entry, month, year) ==
    { d \in 1..getDaysInMonth(year, month) :
        LET day == MkDate(year, month - 1, d, 0, 0)
        IN  /\ DaysSinceEpoch(entry.startDate) <= DaysSinceEpoch(day)
            /\ DaysSinceEpoch(day) <= DaysSinceEpoch(entry.endDate) }

ResultDays == {result[i].day : i \in 1..Len(result)}

\* C10: expanding a multi-day appointment yields exactly one day-entry for
\* every calendar day of the month between its start day and its end day
\* inclusive, whatever the start and end times of day are.
C10_OneEntryPerSpannedDay ==
    (done /\ isSpanningDays(call.entries[1])) =>
        LET entry == call.entries[1]
            days == DayNumbersInMonth(entry, call.month, call.year)
        IN  /\ Len(result) = Cardinality(days)
            /\ ResultDays = days
            /\ \A i \in 1..Len(result) :
                  /\ result[i].startDate.date = result[i].day
                  /\ result[i].startDate.month = call.month - 1
                  /\ result[i].startDate.year = call.year

\* The same holds of every appointment whose end time of day is not earlier
\* than its start time of day.
TimeOfDay(d) == d.hours * 60 + d.minutes

Expand_HoldsWhenEndTimeNotEarlier ==
    (done /\ isSpanningDays(call.entries[1])
          /\ TimeOfDay(call.entries[1].startDate) <= TimeOfDay(call.entries[1].endDate)) =>
        LET entry == call.entries[1]
            days == DayNumbersInMonth(entry, call.month, call.year)
        IN  /\ Len(result) = Cardinality(days)
            /\ ResultDays = days

\* The calendar day of the page's month that a day-entry stands on
DayOf(e) == MkDate(call.year, call.month - 1, e.day, 0, 0)

NotFirstDay(e) == ~SameDateString(DayOf(e), call.entries[1].startDate)
NotLastDay(e) == ~SameDateString(DayOf(e), call.entries[1].endDate)

\* C11: every day-entry of an expanded multi-day appointment is a
\* continuation with hidden start time exactly when its day is not the
\* appointment's first day, has a hidden end time exactly when its day is not
\* the last day, and carries the message with '...' in front exactly when it
\* is a continuation and behind exactly when it is not the last day; a
\* single-day entry passes through as it was stored.
C11_ContinuationFlagsAndMarkers ==
    done =>
        IF isSpanningDays(call.entries[1])
        THEN \A i \in 1..Len(result) :
                LET e == result[i]
                IN  /\ e.isContinuation = NotFirstDay(e)
                    /\ e.hideStartTime = NotFirstDay(e)
                    /\ e.hideEndTime = NotLastDay(e)
                    /\ e.message = (IF NotFirstDay(e) THEN ELLIPSIS ELSE "")
                                     \o call.entries[1].message
                                     \o (IF NotLastDay(e) THEN ELLIPSIS ELSE "")
        ELSE result \in {<<>>, <<call.entries[1]>>}

\* The appointment starts before the page's month and ends inside it: the
\* page's first day-entry is a continuation, its last one shows the end.
C11_Witness ==
    /\ done
    /\ isSpanningDays(call.entries[1])
    /\ call.entries[1].startDate.month # call.month - 1
    /\ Len(result) = 2
    /\ result[1].isContinuation /\ result[1].hideEndTime
    /\ result[1].message = "...Fest..."
    /\ result[2].isContinuation /\ ~result[2].hideEndTime
    /\ result[2].message = "...Fest"

\* C12: every entry of the expansion for a page starts in that page's month
\* and year on the day its day field names, so every day that has entries in
\* the grouping lies between 1 and the number of days of the month.
C12_OnlyDaysOfThePageMonth ==
    done =>
        /\ \A i \in 1..Len(result) :
              /\ result[i].startDate.month = call.month - 1
              /\ result[i].startDate.year = call.year
              /\ result[i].day = result[i].startDate.date
        /\ \A d \in DOMAIN groupEntriesByDay(result) :
              groupEntriesByDay(result)[d] # <<>>
                 => (1 <= d /\ d <= getDaysInMonth(call.year, call.month))
        /\ (~isSpanningDays(call.entries[1])
              /\ (call.entries[1].startDate.month # call.month - 1
                    \/ call.entries[1].startDate.year # call.year))
             => result = <<>>

\* A partially overlapping appointment contributed only its in-month days.
C12_Witness ==
    /\ done
    /\ isSpanningDays(call.entries[1])
    /\ call.entries[1].startDate.month = call.month - 1
    /\ call.entries[1].endDate.month # call.month - 1
    /\ Len(result) = 2
    /\ result[2].day = getDaysInMonth(call.year, call.month)

-----------------------------------------------------------------------------
(* calculateOptimalLayout on the grouped entries of one page               *)
(* (specification SpecLayout)                                              *)

\* Months of 4, 5 and 6 week rows
LayoutMonths == {<<2, 2026>>, <<4, 2024>>, <<3, 2025>>}
WeekStarts == {0, 1}
LayoutMessages == {"Fest", "Gemeindeversammlung im Saal"}
LayoutTimes == {<<0, 0>>, <<9, 30>>}
\* A4 portrait with 10 mm margins: 190 mm * 2.83465 / 7 = 76.9 pt
ColWidths == {FDiv(mmToPt(190), FromInt(7))}
\* Grid heights of 0, 83.2, 104, 124.8, 150 and 300 pt, and the 124.7246 pt
\* of 44 mm
GridHeights == {Dec(gh, 10) : gh \in {0, 832, 1040, 1248, 1500, 3000}} \cup {mmToPt(44)}
LayoutDayA == 3
LayoutDayB == 17

\* n appointments on one day of the page
RECURSIVE Copies(_, _)
Copies(e, n) == IF n = 0 THEN <<>> ELSE <<e>> \o Copies(e, n - 1)

InitLayout ==
    /\ BuilderIdle
    /\ \E p \in LayoutMonths, ws \in WeekStarts, msg \in LayoutMessages,
          t \in LayoutTimes, cw \in ColWidths, gh \in GridHeights :
         \E a \in 0..MaxDayEntries, b \in 0..MaxDayEntries :
            LET month == p[1]
                year == p[2]
                onDay(d) == CalendarEntry(MkDate(year, month - 1, d, t[1], t[2]),
                                          Null, msg, HexBlack, HexWhite)
                entries == Copies(onDay(LayoutDayB), b) \o Copies(onDay(LayoutDayA), a)
            IN  call = [ entriesByDay |-> groupEntriesByDay(sortEntries(
                             expandMultiDayEntries(entries, month, year))),
                         numRows |-> getWeeksInMonth(year, month, ws),
                         weekdayOfFirst |-> getFirstDayWeekday(year, month, ws),
                         daysInMonth |-> getDaysInMonth(year, month),
                         colWidthPt |-> cw,
                         gridHeightPt |-> gh ]
    /\ result = <<>>
    /\ done = FALSE

CalculateOptimalLayout ==
    /\ ~done
    /\ result' = calculateOptimalLayout(call.entriesByDay, call.numRows,
                    call.weekdayOfFirst, call.daysInMonth, call.colWidthPt,
                    call.gridHeightPt)
    /\ done' = TRUE
    /\ UNCHANGED <<call, builderVars>>

NextLayout == CalculateOptimalLayout

SpecLayout == InitLayout /\ [][NextLayout]_vars

\* The content heights distributeRowHeights was called with, and its local
\* variables when it returned.
ContentHeights == ContentHeightsAt(call, result.entryFontSize)
Solved == Distribute(ContentHeights, call.gridHeightPt)
Rows == 1..call.numRows
ContentFits == FLessEq(SumSeq(ContentHeights), call.gridHeightPt)

\* Two lengths are equal up to the rounding of the double operations: they
\* differ by at most a hundred-millionth of a point
Tolerance == Dec(1, 100000000)
FClose(a, b) == FLessEq(FSub(a, b), Tolerance) /\ FLessEq(FSub(b, a), Tolerance)

\* The sum of the returned row heights is the available grid height
SumIsAvailable == FClose(SumSeq(result.rowHeights), call.gridHeightPt)

\* C6: the returned row heights sum to the available grid height (up to the
\* rounding of the double operations), also when the content does not fit at
\* the minimum font size.
C6_SumIsAvailableAlways ==
    done => SumIsAvailable

\* C6 (amended): the row heights sum to the available grid height (up to
\* the rounding of the double operations) whenever the content heights at
\* the returned font size sum to at most that height; otherwise every row is
\* pinned to its content height and the sum is the content total, which
\* exceeds the available height.
C6_SumIsAvailableWhenContentFits ==
    done =>
        IF ContentFits
        THEN SumIsAvailable
        ELSE /\ result.entryFontSize = FromInt(MIN_FONT_SIZE)
             /\ \A i \in Rows : result.rowHeights[i] = ContentHeights[i]
             /\ FLess(call.gridHeightPt, SumSeq(result.rowHeights))

C6_Witness ==
    /\ done
    /\ ContentFits
    /\ \E i, j \in Rows : Solved.isFixed[i] /\ ~Solved.isFixed[j]
    /\ SumIsAvailable

\* C7: every fixed row has exactly its content height, every row has at
\* least its content height, and no row has a zero or negative height.
C7_RowsCoverContent ==
    done =>
        /\ \A i \in Rows :
              /\ Solved.isFixed[i] => result.rowHeights[i] = ContentHeights[i]
              /\ FLessEq(ContentHeights[i], result.rowHeights[i])
        /\ (\A i \in Rows : FLess(FZero, ContentHeights[i]))
              => \A i \in Rows : FLess(FZero, result.rowHeights[i])

C7_Witness ==
    /\ done
    /\ \E i, j \in Rows :
          /\ Solved.isFixed[i]
          /\ ~Solved.isFixed[j]
          /\ FLess(ContentHeights[j], result.rowHeights[j])

\* The equal share totalAvailable / numRows
EqualShareOfAll == FDiv(call.gridHeightPt, FromInt(call.numRows))

AllWithinEqualShare ==
    \A i \in Rows : FLessEq(ContentHeights[i], EqualShareOfAll)

\* C8: when every content height is at most totalAvailable / numRows, no row
\* is fixed and every row gets totalAvailable / numRows, and the rows sum
\* exactly to totalAvailable.
C8_EqualRowsSumExactly ==
    (done /\ AllWithinEqualShare) =>
        /\ \A i \in Rows : ~Solved.isFixed[i]
        /\ \A i \in Rows : result.rowHeights[i] = EqualShareOfAll
        /\ SumSeq(result.rowHeights) = call.gridHeightPt

\* C8 (amended): the same, with the sum of the equal rows equal to
\* totalAvailable up to the rounding of the double additions.
C8_EqualRowsWhenAllFit ==
    (done /\ AllWithinEqualShare) =>
        /\ \A i \in Rows : ~Solved.isFixed[i]
        /\ \A i \in Rows : result.rowHeights[i] = EqualShareOfAll
        /\ SumIsAvailable

C8_Witness ==
    /\ done
    /\ AllWithinEqualShare
    /\ \E i \in Rows : FLess(minRowHeight, ContentHeights[i])
    /\ \A i \in Rows : ~Solved.isFixed[i]

\* Row i exceeds the equal share and every other row is at the empty-row
\* minimum.
OneLargeRow(i) ==
    /\ FLess(EqualShareOfAll, ContentHeights[i])
    /\ \A j \in Rows \ {i} : ContentHeights[j] = minRowHeight

LargeRowPinned(i) ==
    /\ result.rowHeights[i] = ContentHeights[i]
    /\ \A j, k \in Rows \ {i} : result.rowHeights[j] = result.rowHeights[k]
    /\ \A j \in Rows \ {i} :
          FClose(result.rowHeights[j],
                 FDiv(FSub(call.gridHeightPt, ContentHeights[i]),
                      FromInt(call.numRows - 1)))
    /\ SumIsAvailable

\* C9: with one row above the equal share and all others at the empty-row
\* minimum, the large row is pinned to its content height, every other row
\* gets (available - pinned) / (numRows - 1), and the total is the available
\* height (both up to the rounding of the double operations).
C9_LargeRowPinnedAlways ==
    done => \A i \in Rows : OneLargeRow(i) => LargeRowPinned(i)

\* C9 (amended): the same, provided the content fits the available height
\* (the pinned height plus the empty-row minimum of every other row is at
\* most the available height); when it does not fit, every row is pinned to
\* its content height and the total exceeds the available height.
C9_LargeRowPinnedWhenContentFits ==
    done => \A i \in Rows : OneLargeRow(i) =>
        IF ContentFits
        THEN LargeRowPinned(i)
        ELSE /\ \A j \in Rows : result.rowHeights[j] = ContentHeights[j]
             /\ FLess(call.gridHeightPt, SumSeq(result.rowHeights))

C9_Witness ==
    /\ done
    /\ ContentFits
    /\ \E i \in Rows :
          /\ OneLargeRow(i)
          /\ LargeRowPinned(i)
          /\ \E j \in Rows : ~Solved.isFixed[j]

\* The font sizes the search tries: 8, 7.5, 7, 6.5, 6, 5.5, 5
FontSizes ==
    {FromInt(8), Dec(75, 10), FromInt(7), Dec(65, 10), FromInt(6), Dec(55, 10), FromInt(5)}

\* The estimated row content heights at a font size fit the grid height
FitsAt(fs) == FLessEq(SumSeq(ContentHeightsAt(call, fs)), call.gridHeightPt)

\* C23: calculateOptimalLayout returns a font size of 8, 7.5, ..., 5: the
\* largest of them at which the estimated row content heights sum to at most
\* the grid height, and 5 when none of them fits; the returned row heights
\* are the distribution of the content heights at the returned size.
C23_LargestFittingFontSize ==
    done =>
        /\ result.entryFontSize \in FontSizes
        /\ IF \E fs \in FontSizes : FitsAt(fs)
           THEN /\ FitsAt(result.entryFontSize)
                /\ \A fs \in FontSizes : FLess(result.entryFontSize, fs) => ~FitsAt(fs)
           ELSE result.entryFontSize = FromInt(MIN_FONT_SIZE)
        /\ result.rowHeights
              = distributeRowHeights(ContentHeightsAt(call, result.entryFontSize),
                                     call.gridHeightPt)
        /\ Len(result.rowHeights) = call.numRows

\* The search stopped at 7.5: the content overflows at 8 and fits from 7.5 on.
C23_Witness ==
    /\ done
    /\ result.entryFontSize = Dec(75, 10)
    /\ ~FitsAt(FromInt(8))
    /\ FitsAt(Dec(75, 10))

\* The estimated row content heights at every font size of the search, from
\* 5 upwards, and the place of a size in that list
RECURSIVE HeightsFrom(_)
HeightsFrom(fs) ==
    IF FLess(FromInt(ENTRY_FONT_SIZE), fs) THEN <<>>
    ELSE <<ContentHeightsAt(call, fs)>> \o HeightsFrom(FAdd(fs, FONT_STEP))

SizeIndex(fs) == FFloor(FDiv(FSub(fs, FromInt(MIN_FONT_SIZE)), FONT_STEP)) + 1

\* C30: at every font size of the search every row's estimated content
\* height is at least the empty-row minimum, and no row's estimate grows
\* when the font size goes down a step; so the content fits at every size
\* below a size at which it fits, and when some size fits, the sizes that
\* fit are exactly those up to the size the search returned.
C30_EstimateShrinksWithFont ==
    done =>
        LET heights == HeightsFrom(FromInt(MIN_FONT_SIZE))
            fits == [k \in 1..Len(heights) |->
                        FLessEq(SumSeq(heights[k]), call.gridHeightPt)]
        IN  /\ Len(heights) = Cardinality(FontSizes)
            /\ \A fs \in FontSizes : \A r \in Rows :
                  /\ FLessEq(minRowHeight, heights[SizeIndex(fs)][r])
                  /\ FLess(FromInt(MIN_FONT_SIZE), fs) =>
                        FLessEq(heights[SizeIndex(fs) - 1][r], heights[SizeIndex(fs)][r])
            /\ \A fs \in FontSizes : \A smaller \in FontSizes :
                  (fits[SizeIndex(fs)] /\ FLess(smaller, fs)) => fits[SizeIndex(smaller)]
            /\ (\E fs \in FontSizes : fits[SizeIndex(fs)]) =>
                  \A fs \in FontSizes :
                     fits[SizeIndex(fs)] = FLessEq(fs, result.entryFontSize)

\* The search stopped at 6.5: sizes 8 to 7 overflow, 6.5 down to 5 fit, and
\* a row's estimate is strictly smaller at 5 than at 8.
C30_Witness ==
    /\ done
    /\ result.entryFontSize = Dec(65, 10)
    /\ ~FitsAt(FromInt(8)) /\ ~FitsAt(FromInt(7))
    /\ FitsAt(Dec(65, 10)) /\ FitsAt(FromInt(5))
    /\ \E r \in Rows :
          FLess(ContentHeightsAt(call, FromInt(5))[r], ContentHeightsAt(call, FromInt(8))[r])

-----------------------------------------------------------------------------
(* cloneForDay as expandMultiDayEntries calls it for one day of a multi-day *)
(* appointment, and the writes of that loop pass to the clone               *)
(* (specification SpecClone)                                                *)

\* Multi-day appointments <<startDate, endDate>>: over a month's end at
\* three times of day, over the leap day, and over a year's end
CloneAppointments ==
    { <<MkDate(2024, 0, 30, 0, 0), MkDate(2024, 1, 2, 9, 0)>>,
      <<MkDate(2024, 0, 30, 9, 0), MkDate(2024, 1, 2, 9, 0)>>,
      <<MkDate(2024, 0, 30, 18, 30), MkDate(2024, 1, 2, 9, 0)>>,
      <<MkDate(2024, 1, 28, 9, 0), MkDate(2024, 2, 1, 9, 0)>>,
      <<MkDate(2025, 11, 30, 9, 0), MkDate(2026, 0, 1, 9, 0)>> }
CloneMessages == {"Fest", "Lager"}
CloneTextColors == {HexBlack, <<200, 0, 0>>}

\* Pass n of the while loop, after n times current.setDate(getDate() + 1),
\* where it reaches the call: current <= end, and the page's month and year
\* are those of current.  The call's arguments are
\* current.getDate() and the page's month and year; isFirst and isLastDay
\* are the pass's.
InitClone ==
    /\ BuilderIdle
    /\ \E a \in CloneAppointments, msg \in CloneMessages, t \in CloneTextColors,
          n \in 0..MaxSpanDays :
          LET entry == CalendarEntry(a[1], a[2], msg, t, HexWhite)
              current == AddDays(a[1], n)
          IN  /\ isSpanningDays(entry)
              /\ getTime(current) <= getTime(a[2])
              /\ call = [ heap |-> <<entry>>, src |-> 1,
                          day |-> current.date,
                          month |-> current.month + 1,
                          year |-> current.year,
                          isFirst |-> (n = 0),
                          isLastDay |-> SameDateString(current, a[2]) ]
    /\ result = <<>>
    /\ done = FALSE

\* const newEntry = entry.cloneForDay(current.getDate(), month, year)
CloneForDay ==
    /\ ~done
    /\ LET clone == CloneForDayRef(call.heap, call.src, call.day, call.month, call.year)
       IN  result' = [heap |-> clone.heap, ref |-> clone.ref, written |-> FALSE]
    /\ done' = TRUE
    /\ UNCHANGED <<call, builderVars>>

\* The assignments of the pass to newEntry: hideStartTime, isContinuation
\* and message when the pass is not the first, hideEndTime and message when
\* the day is not the last
WriteClone ==
    /\ done
    /\ ~result.written
    /\ result' = [ result EXCEPT
                     !.heap = DayWrites(result.heap, result.ref, call.src,
                                        call.isFirst, call.isLastDay),
                     !.written = TRUE ]
    /\ UNCHANGED <<call, done, builderVars>>

NextClone == CloneForDay \/ WriteClone

SpecClone == InitClone /\ [][NextClone]_vars

CloneSource == result.heap[call.src]
Clone == result.heap[result.ref]

\* What the clone shares with its source, and what is reset
CloneCarriesSource ==
    /\ Clone.startDate.hours = CloneSource.startDate.hours
    /\ Clone.startDate.minutes = CloneSource.startDate.minutes
    /\ Clone.endDate = Null
    /\ Clone.message = CloneSource.message
    /\ Clone.textColor = CloneSource.textColor
    /\ Clone.bgColor = CloneSource.bgColor
    /\ ~Clone.hideStartTime /\ ~Clone.hideEndTime /\ ~Clone.isContinuation
    /\ Clone.originalStartDate = CloneSource.startDate

\* C17: cloneForDay returns a new entry that starts on the given day, month
\* and year at the source's start hour and minute, whose day field is the
\* given day, whose endDate is null, whose message and colours are the
\* source's, whose flags are all false and whose originalStartDate is the
\* source's start; the source is as it was, also after the caller has
\* written the clone's message and flags, and those writes leave the
\* clone's day, dates and colours as cloneForDay set them.
C17_CloneOnGivenDay ==
    done =>
        /\ result.ref # call.src
        /\ CloneSource = call.heap[call.src]
        /\ Clone.startDate.year = call.year
        /\ Clone.startDate.month = call.month - 1
        /\ Clone.startDate.date = call.day
        /\ Clone.startDate.hours = CloneSource.startDate.hours
        /\ Clone.startDate.minutes = CloneSource.startDate.minutes
        /\ Clone.day = call.day
        /\ Clone.endDate = Null
        /\ Clone.textColor = CloneSource.textColor
        /\ Clone.bgColor = CloneSource.bgColor
        /\ Clone.originalStartDate = CloneSource.startDate
        /\ ~result.written => CloneCarriesSource

\* The clone for 1 February 2024 of an appointment from 30 January to
\* 2 February, after the five writes of a pass that is neither the first
\* nor the last day: the clone is a flagged continuation, the source is not.
C17_Witness ==
    /\ done
    /\ result.written
    /\ ~call.isFirst /\ ~call.isLastDay
    /\ call.day = 1 /\ call.month = 2 /\ call.year = 2024
    /\ Clone.day = 1 /\ Clone.startDate.month = 1
    /\ CloneSource.startDate.month = 0
    /\ CloneSource.endDate # Null
    /\ CloneSource.message = "Fest"
    /\ ~CloneSource.isContinuation /\ ~CloneSource.hideStartTime /\ ~CloneSource.hideEndTime
    /\ Clone.message = "...Fest..."
    /\ Clone.isContinuation /\ Clone.hideStartTime /\ Clone.hideEndTime

-----------------------------------------------------------------------------
(* The time methods of CalendarEntry (specification SpecEntry)              *)

EntryHours == {0, 1, 9, 12, 23}
EntryMinutes == {0, 1, 5, 30, 59}

\* An entry that starts on a day at any of the times and has no end or ends
\* the day after at any of the times, with the hide flags set or not
InitEntry ==
    /\ BuilderIdle
    /\ \E sh \in EntryHours, sm \in EntryMinutes, hs \in BOOLEAN, he \in BOOLEAN :
         \E end \in {Null} \cup {MkDate(2024, 2, 11, eh, em) :
                                    eh \in EntryHours, em \in EntryMinutes} :
            call = [ CalendarEntry(MkDate(2024, 2, 10, sh, sm), end, "Fest",
                                   HexBlack, HexWhite)
                     EXCEPT !.hideStartTime = hs, !.hideEndTime = he ]
    /\ result = <<>>
    /\ done = FALSE

CallTimeMethods ==
    /\ ~done
    /\ result' = [ isAllDay |-> isAllDay(call),
                   isAllDayEvent |-> isAllDayEvent(call.startDate, call.endDate),
                   formattedStartTime |-> getFormattedStartTime(call),
                   formattedEndTime |-> getFormattedEndTime(call) ]
    /\ done' = TRUE
    /\ UNCHANGED <<call, builderVars>>

NextEntry == CallTimeMethods

SpecEntry == InitEntry /\ [][NextEntry]_vars

MinuteOfDay(d) == d.hours * 60 + d.minutes

\* C18: isAllDay is true exactly when the start time is 00:00 and there is
\* no end date or the end time is 00:00 or 23:59; isAllDayEvent of
\* date-utils answers the same.
C18_AllDayExactly ==
    done =>
        /\ result.isAllDay =
              (/\ MinuteOfDay(call.startDate) = 0
               /\ (call.endDate = Null \/ MinuteOfDay(call.endDate) \in {0, 23 * 60 + 59}))
        /\ result.isAllDayEvent = result.isAllDay

C18_Witness ==
    /\ done
    /\ MinuteOfDay(call.startDate) = 0
    /\ call.endDate # Null
    /\ call.endDate.hours = 23
    /\ call.endDate.minutes = 59
    /\ result.isAllDay

\* The entry shows no time of its own accord
AllDayEntry ==
    /\ MinuteOfDay(call.startDate) = 0
    /\ (call.endDate = Null \/ MinuteOfDay(call.endDate) \in {0, 23 * 60 + 59})

\* 'H' when the minutes are zero, 'H:MM' with two-digit minutes otherwise
ClockText(d) ==
    IF d.minutes = 0 THEN ToString(d.hours)
    ELSE ToString(d.hours) \o ":" \o (IF d.minutes < 10 THEN "0" ELSE "")
            \o ToString(d.minutes)

ExpectedEndTime ==
    IF call.hideEndTime \/ call.endDate = Null \/ AllDayEntry THEN ""
    ELSE ClockText(call.endDate) \o "h"

\* C19: getFormattedStartTime returns '' when hideStartTime is set or the
\* entry is all-day and otherwise 'H' or 'H:MM' followed by 'h';
\* getFormattedEndTime does the same for the end time and also returns ''
\* when hideEndTime is set or there is no end date.
C19_TimesEndWithH ==
    done =>
        /\ result.formattedStartTime =
              (IF call.hideStartTime \/ AllDayEntry THEN ""
               ELSE ClockText(call.startDate) \o "h")
        /\ result.formattedEndTime = ExpectedEndTime

\* C19 (amended): the same, but the start time ends with 'h' and a space
\* ('9h ', '9:05h ') where the end time ends with 'h' alone ('10h').
C19_StartTimeEndsWithHSpace ==
    done =>
        /\ result.formattedStartTime =
              (IF call.hideStartTime \/ AllDayEntry THEN ""
               ELSE ClockText(call.startDate) \o "h ")
        /\ result.formattedEndTime = ExpectedEndTime

C19_Witness ==
    /\ done
    /\ result.formattedStartTime = "9:05h "
    /\ result.formattedEndTime = "12h"

-----------------------------------------------------------------------------
(* The contrast colour of a calendar colour (specification SpecContrast)    *)

\* Components of calendar colours: the ends, the middle, and values whose
\* weighted sums are 127999, 128000 and 128001
RedLevels == {0, 1, 2, 6, 128, 255}
GreenLevels == {0, 128, 173, 189, 205, 215, 255}
BlueLevels == {0, 62, 128, 147, 232, 255}

\* The six hex digits of '#RRGGBB'
HexDigits(r, g, b) == <<r \div 16, r % 16, g \div 16, g % 16, b \div 16, b % 16>>

InitContrast ==
    /\ BuilderIdle
    /\ \E r \in RedLevels, g \in GreenLevels, b \in BlueLevels :
          call = [hexColor |-> HexDigits(r, g, b), r |-> r, g |-> g, b |-> b]
    /\ result = <<>>
    /\ done = FALSE

PickContrastColors ==
    /\ ~done
    /\ result' = [ pdf |-> getContrastColorForCalendar(call.hexColor),
                   badge |-> getContrastColor(call.hexColor),
                   xlsx |-> getContrastColorHex(call.hexColor) ]
    /\ done' = TRUE
    /\ UNCHANGED <<call, builderVars>>

NextContrast == PickContrastColors

SpecContrast == InitContrast /\ [][NextContrast]_vars

\* 1000 times the brightness of the colour
WeightedSum == 299 * call.r + 587 * call.g + 114 * call.b

\* C20: the contrast pick is black when (299R + 587G + 114B) / 1000 is
\* strictly greater than 128 and white otherwise, so that brightness exactly
\* 128 gives white; the badge, the PDF text and the spreadsheet pick alike.
C20_ContrastPick ==
    done =>
        /\ result.pdf = (IF WeightedSum > 128000 THEN "#000000" ELSE "#FFFFFF")
        /\ (result.badge = "#000000") = (result.pdf = "#000000")
        /\ (result.badge = "#ffffff") = (result.pdf = "#FFFFFF")
        /\ (result.xlsx = "000000") = (result.pdf = "#000000")
        /\ (result.xlsx = "FFFFFF") = (result.pdf = "#FFFFFF")

\* Brightness exactly 128 (R = G = B = 128) resolves to white
C20_Witness ==
    /\ done
    /\ call.r = 128 /\ call.g = 128 /\ call.b = 128
    /\ WeightedSum = 128000
    /\ result.pdf = "#FFFFFF"
    /\ result.badge = "#ffffff"
    /\ result.xlsx = "FFFFFF"

-----------------------------------------------------------------------------
(* buildPageContent on one page with its entries (specification SpecPage)   *)

\* Every month of three years: 28 to 31 days, every weekday of the first
PageMonths == {<<m, y>> : m \in 1..12, y \in {2024, 2025, 2026}}

PageConfigs ==
    { [orientation |-> "portrait", pageSize |-> "A4", weekStarts |-> ws,
       showEndTime |-> se] : ws \in WeekStarts, se \in BOOLEAN }

\* The appointments a caller adds to the page: two that start at the same
\* minute of day 10, an earlier one on that day, and one from day 9 to 11.
PageAppointments(month, year) ==
    { CalendarEntry(MkDate(year, month - 1, 10, 9, 0), MkDate(year, month - 1, 10, 10, 0),
                    "Meeting", HexBlack, HexWhite),
      CalendarEntry(MkDate(year, month - 1, 10, 9, 0), Null, "Probe", HexWhite, HexRed),
      CalendarEntry(MkDate(year, month - 1, 10, 8, 30), Null, "Andacht", HexBlack, HexWhite),
      CalendarEntry(MkDate(year, month - 1, 9, 9, 0), MkDate(year, month - 1, 11, 12, 0),
                    "Lager", HexBlack, HexWhite) }

\* The sequences of at most n elements of S
RECURSIVE SeqsUpTo(_, _)
SeqsUpTo(S, n) ==
    IF n = 0 THEN {<<>>}
    ELSE SeqsUpTo(S, n - 1)
         \cup {Append(q, x) : q \in {r \in SeqsUpTo(S, n - 1) : Len(r) = n - 1}, x \in S}

RECURSIVE PushEntries(_, _)
PushEntries(ps, entries) ==
    IF entries = <<>> THEN ps
    ELSE PushEntries(PushEntry(ps, Head(entries)), Tail(entries))

InitPage ==
    /\ config \in {Constructor(c) : c \in PageConfigs}
    /\ \E p \in PageMonths :
         \E entries \in SeqsUpTo(PageAppointments(p[1], p[2]), MaxPageEntries) :
            pages = PushEntries(PushPage(<<>>, p[1], p[2], NoTitle), entries)
    /\ categories = <<>>
    /\ lastOp = "new"
    /\ error = "none"
    /\ output = NoOutput
    /\ call = <<>>
    /\ result = <<>>
    /\ done = FALSE

BuildPageContent ==
    /\ ~done
    /\ result' = buildPageContent(pages[1])
    /\ done' = TRUE
    /\ UNCHANGED <<call, builderVars>>

NextPage == BuildPageContent

SpecPage == InitPage /\ [][NextPage]_vars

\* The page, its calendar table and the table's cells below the header row
Page == pages[1]
PageTable == result[1].stack[2].table
BodyRows == Tail(PageTable.body)
IsDayCell(cell) == "stack" \in DOMAIN cell
IsBlankCell(cell) == ~IsDayCell(cell) /\ cell.text = ""
DayNumberOf(cell) == cell.stack[1].text
CellEntries(cell) == Tail(cell.stack)
CellTexts(cell) ==
    [k \in 1..Len(CellEntries(cell)) |-> CellEntries(cell)[k].table.body[1][1].text]

\* The cell at place k of the grid read row by row, k from 1
GridCell(k) == BodyRows[((k - 1) \div 7) + 1][((k - 1) % 7) + 1]
PageOffset == getFirstDayWeekday(Page.year, Page.month, config.weekStarts)
PageDays == getDaysInMonth(Page.year, Page.month)
DayCell(d) == GridCell(PageOffset + d)

\* The expanded entries of the page in the order they were produced, those
\* of day d, and their order by start timestamp with ties in the given order
PageExpanded == expandMultiDayEntries(Page.entries, Page.month, Page.year)
OnDay(d) == SelectSeq(PageExpanded, LAMBDA e : e.day = d)

StableRank(es, i) ==
    Cardinality({j \in 1..Len(es) : getTime(es[j].startDate) < getTime(es[i].startDate)})
    + Cardinality({j \in 1..(i - 1) : getTime(es[j].startDate) = getTime(es[i].startDate)})
    + 1

ByStartStable(es) ==
    [k \in 1..Len(es) |-> es[CHOOSE i \in 1..Len(es) : StableRank(es, i) = k]]

RECURSIVE EntriesInCells(_)
EntriesInCells(d) ==
    IF d = 0 THEN 0 ELSE EntriesInCells(d - 1) + Len(CellEntries(DayCell(d)))

\* C13: the cell of every day renders exactly the expanded entries of that
\* day, each once, ordered by start timestamp ascending with entries of equal
\* start in the order they were added; no entry is rendered anywhere else.
C13_CellHoldsDayEntriesInStableOrder ==
    done =>
        /\ \A d \in 1..PageDays :
              LET cell == DayCell(d)
                  es == ByStartStable(OnDay(d))
              IN  /\ IsDayCell(cell)
                  /\ DayNumberOf(cell) = ToString(d)
                  /\ Len(CellEntries(cell)) = Len(es)
                  /\ \A k \in 1..Len(es) :
                        LET shown == CellEntries(cell)[k].table.body[1][1]
                        IN  /\ shown.text = EntryText(es[k])
                            /\ shown.color = rgbToHex(es[k].textColor)
                            /\ shown.fillColor = rgbToHex(es[k].bgColor)
        /\ EntriesInCells(PageDays) = Len(PageExpanded)

\* Two appointments with the same start, added 'Probe' first, and a
\* continuation day of a third one on another page state
C13_Witness ==
    /\ done
    /\ ~config.showEndTime
    /\ Len(Page.entries) = 2
    /\ Page.entries[1].message = "Probe"
    /\ Page.entries[2].message = "Meeting"
    /\ CellTexts(DayCell(10)) = <<"9h Probe", "9h Meeting">>

\* C14: the grid has exactly weeksInMonth body rows of 7 cells; read row by
\* row it holds firstWeekdayOffset blank cells, then the days 1..daysInMonth
\* once each in increasing order, then fewer than 7 blank cells, so that no
\* day is dropped and every row holds a day.
C14_GridShape ==
    done =>
        LET numRows == getWeeksInMonth(Page.year, Page.month, config.weekStarts)
        IN  /\ Len(BodyRows) = numRows
            /\ \A r \in 1..numRows : Len(BodyRows[r]) = 7
            /\ \A k \in 1..(7 * numRows) :
                  IF k <= PageOffset \/ k > PageOffset + PageDays
                  THEN IsBlankCell(GridCell(k))
                  ELSE /\ IsDayCell(GridCell(k))
                       /\ DayNumberOf(GridCell(k)) = ToString(k - PageOffset)
            /\ 7 * numRows - (PageOffset + PageDays) \in 0..6
            /\ \A r \in 1..numRows : \E c \in 1..7 : IsDayCell(BodyRows[r][c])

\* A month of six rows with blank cells at both ends
C14_Witness ==
    /\ done
    /\ Len(BodyRows) = 6
    /\ PageOffset > 0
    /\ IsBlankCell(GridCell(1))
    /\ IsBlankCell(GridCell(42))
    /\ DayNumberOf(GridCell(PageOffset + PageDays)) = ToString(PageDays)

\* The builder of the end-to-end example: portrait A4, Monday week start, no
\* end times, April 2024 with one appointment on April 10 from 9:00 to 10:00
MeetingExample ==
    /\ config.orientation = "portrait"
    /\ config.pageSize = "A4"
    /\ config.weekStarts = 1
    /\ ~config.showEndTime
    /\ Len(pages) = 1
    /\ Page.month = 4
    /\ Page.year = 2024
    /\ Page.entries = << CalendarEntry(MkDate(2024, 3, 10, 9, 0), MkDate(2024, 3, 10, 10, 0),
                                       "Meeting", HexBlack, HexWhite) >>

\* C15: the builder of the example produces a grid of exactly 5 week rows in
\* which the cell of day 10 holds exactly one entry with the text
\* '9h Meeting' and no other day cell holds an entry.
C15_MeetingExampleGrid ==
    (done /\ MeetingExample) =>
        /\ Len(BodyRows) = 5
        /\ DayNumberOf(DayCell(10)) = "10"
        /\ CellTexts(DayCell(10)) = <<"9h Meeting">>
        /\ \A d \in 1..30 : d # 10 => CellEntries(DayCell(d)) = <<>>

C15_Witness ==
    /\ done
    /\ MeetingExample
    /\ Len(BodyRows) = 5
    /\ CellTexts(DayCell(10)) = <<"9h Meeting">>

-----------------------------------------------------------------------------
(* getFirstDayWeekday and getWeeksInMonth of date-utils                     *)
(* (specification SpecWeeks)                                                *)

\* Six years of months: every weekday of the first with every month length
WeekYears == 2023..2028
WeekMonths == 1..12

InitWeeks ==
    /\ BuilderIdle
    /\ \E y \in WeekYears, m \in WeekMonths, ws \in WeekStarts :
          call = [year |-> y, month |-> m, weekStarts |-> ws]
    /\ result = <<>>
    /\ done = FALSE

GetWeeksInMonth ==
    /\ ~done
    /\ result' = [ firstDayWeekday |->
                       getFirstDayWeekday(call.year, call.month, call.weekStarts),
                   weeksInMonth |->
                       getWeeksInMonth(call.year, call.month, call.weekStarts) ]
    /\ done' = TRUE
    /\ UNCHANGED <<call, builderVars>>

NextWeeks == GetWeeksInMonth

SpecWeeks == InitWeeks /\ [][NextWeeks]_vars

\* The weekday (0 = Sunday) of the first of the called month, counted from
\* Monday 2024-01-01 by month lengths
RECURSIVE DaysFrom2024(_, _)
DaysFrom2024(y, m) ==
    IF y = 2024 /\ m = 1 THEN 0
    ELSE IF y < 2024
         THEN DaysFrom2024(IF m = 12 THEN y + 1 ELSE y, IF m = 12 THEN 1 ELSE m + 1)
              - getDaysInMonth(y, m)
         ELSE DaysFrom2024(IF m = 1 THEN y - 1 ELSE y, IF m = 1 THEN 12 ELSE m - 1)
              + getDaysInMonth(IF m = 1 THEN y - 1 ELSE y, IF m = 1 THEN 12 ELSE m - 1)

WeekdayOfFirst == (1 + DaysFrom2024(call.year, call.month) + 7000) % 7

\* C21: getFirstDayWeekday returns a value in 0..6 equal to the weekday of
\* the first minus the week start, with 7 added when that is negative, and
\* getWeeksInMonth returns the least whole number of weeks that holds the
\* days of the month after that offset, which is 4, 5 or 6.
C21_OffsetAndWeeks ==
    done =>
        LET diff == WeekdayOfFirst - call.weekStarts
            cells == getDaysInMonth(call.year, call.month) + result.firstDayWeekday
        IN  /\ result.firstDayWeekday \in 0..6
            /\ result.firstDayWeekday = (IF diff < 0 THEN diff + 7 ELSE diff)
            /\ 7 * result.weeksInMonth >= cells
            /\ 7 * (result.weeksInMonth - 1) < cells
            /\ result.weeksInMonth \in 4..6

\* October 2023 starts on a Sunday: under a Monday week start the offset is
\* 6 and the month takes 6 rows.
C21_Witness ==
    /\ done
    /\ call = [year |-> 2023, month |-> 10, weekStarts |-> 1]
    /\ WeekdayOfFirst = 0
    /\ result.firstDayWeekday = 6
    /\ result.weeksInMonth = 6

-----------------------------------------------------------------------------
(* The entries of a builder: addEntry on a page, then the expansion of the  *)
(* page's entries (specification SpecStore)                                 *)

InitStore ==
    /\ config = Constructor([orientation |-> "portrait", pageSize |-> "A4", weekStarts |-> 1])
    /\ \E p \in ExpandPages : pages = PushPage(<<>>, p[1], p[2], NoTitle)
    /\ categories = <<>>
    /\ lastOp = "addMonth"
    /\ error = "none"
    /\ output = NoOutput
    /\ call = <<>>
    /\ result = <<>>
    /\ done = FALSE

\* The caller passes any start date and any end date or null.
StoreEntry ==
    /\ ~done
    /\ pages[1].entries = <<>>
    /\ \E w \in WindowStarts :
         \E s \in WindowDates(w), e \in WindowDates(w) \cup {Null} :
            addEntry(s, e, "Fest", HexBlack, HexWhite)
    /\ UNCHANGED helperVars

ExpandStored ==
    /\ ~done
    /\ result' = expandMultiDayEntries(pages[1].entries, pages[1].month, pages[1].year)
    /\ done' = TRUE
    /\ UNCHANGED <<call, builderVars>>

NextStore == StoreEntry \/ ExpandStored

SpecStore == InitStore /\ [][NextStore]_vars

\* The entries that exist in the builder: the stored ones and the expanded
StoredEntries == {pages[1].entries[i] : i \in 1..Len(pages[1].entries)}
ExpandedEntries == {result[i] : i \in 1..Len(result)}

\* C22: every entry stored by addEntry or produced by the expansion has day
\* equal to the day of the month of its start date and an end date, if any,
\* that is not earlier than its start date.
C22_EntriesWellFormed ==
    \A e \in StoredEntries \cup ExpandedEntries :
        /\ e.day = e.startDate.date
        /\ e.endDate # Null => getTime(e.endDate) >= getTime(e.startDate)

\* What the code keeps: day is the start's day of the month, an expanded
\* day-entry of a multi-day appointment has no end date, and a stored entry
\* has the end date the caller passed, whatever its order to the start.
Store_DayIsStartDay ==
    /\ \A e \in StoredEntries \cup ExpandedEntries : e.day = e.startDate.date
    /\ \A e \in ExpandedEntries \ StoredEntries : e.endDate = Null

-----------------------------------------------------------------------------
(* distributeRowHeights pass by pass, on the content heights and the grid   *)
(* height calculateOptimalLayout calls it with (specification               *)
(* SpecDistribute)                                                          *)

\* The grid heights of the calls: 0 to 300 pt, and the 124.7246 pt of 44 mm
DistributeHeights ==
    {Dec(gh, 10) : gh \in {0, 832, 1040, 1248, 1400, 1500, 1600, 1800, 3000}}
      \cup {mmToPt(44)}

\* numRows, rowHeights, isFixed, remaining and flexCount before the for loop;
\* loop tells whether the for loop is still running
DistributeStart(contentHeights, totalAvailable) ==
    [ rowHeights |-> [i \in 1..Len(contentHeights) |-> FZero],
      isFixed |-> [i \in 1..Len(contentHeights) |-> FALSE],
      remaining |-> totalAvailable,
      flexCount |-> Len(contentHeights),
      changed |-> FALSE,
      passes |-> 0,
      loop |-> IF Len(contentHeights) > 0 THEN "running" ELSE "ended" ]

InitDistribute ==
    /\ BuilderIdle
    /\ \E p \in LayoutMonths, ws \in WeekStarts, msg \in LayoutMessages,
          t \in LayoutTimes, cw \in ColWidths, gh \in DistributeHeights :
         \E a \in 0..MaxDayEntries, b \in 0..MaxDayEntries :
            LET month == p[1]
                year == p[2]
                onDay(d) == CalendarEntry(MkDate(year, month - 1, d, t[1], t[2]),
                                          Null, msg, HexBlack, HexWhite)
                entries == Copies(onDay(LayoutDayB), b) \o Copies(onDay(LayoutDayA), a)
                in == [ entriesByDay |-> groupEntriesByDay(sortEntries(
                             expandMultiDayEntries(entries, month, year))),
                        numRows |-> getWeeksInMonth(year, month, ws),
                        weekdayOfFirst |-> getFirstDayWeekday(year, month, ws),
                        daysInMonth |-> getDaysInMonth(year, month),
                        colWidthPt |-> cw,
                        gridHeightPt |-> gh ]
                layout == LayoutSearch(in, FromInt(ENTRY_FONT_SIZE))
            IN  call = [ contentHeights |-> ContentHeightsAt(in, layout.entryFontSize),
                         totalAvailable |-> gh ]
    /\ result = DistributeStart(call.contentHeights, call.totalAvailable)
    /\ done = FALSE

\* One iteration of the for loop: the pass over the rows, then `if (!changed)
\* break` and the loop condition iteration < numRows
DistributeIteration ==
    /\ ~done
    /\ result.loop = "running"
    /\ LET after == DistributePass(
                        [result EXCEPT !.changed = FALSE, !.passes = result.passes + 1],
                        call.contentHeights,
                        FDiv(result.remaining, FromInt(result.flexCount)), 1)
       IN  result' = [ rowHeights |-> after.rowHeights,
                       isFixed |-> after.isFixed,
                       remaining |-> after.remaining,
                       flexCount |-> after.flexCount,
                       changed |-> after.changed,
                       passes |-> after.passes,
                       loop |-> IF after.changed /\ after.passes < Len(call.contentHeights)
                                THEN "running" ELSE "ended" ]
    /\ UNCHANGED <<call, done, builderVars>>

\* The flexible rows get the equal share of what is left, and the call returns
DistributeReturn ==
    /\ ~done
    /\ result.loop = "ended"
    /\ result' = [result EXCEPT !.rowHeights =
                    [i \in 1..Len(call.contentHeights) |->
                        IF result.isFixed[i] THEN result.rowHeights[i]
                        ELSE FinalShare(result)]]
    /\ done' = TRUE
    /\ UNCHANGED <<call, builderVars>>

NextDistribute == DistributeIteration \/ DistributeReturn

SpecDistribute == InitDistribute /\ [][NextDistribute]_vars

DistributeRows == 1..Len(call.contentHeights)
FlexibleRows(st) == {i \in DistributeRows : ~st.isFixed[i]}

\* C24: the fixing loop makes at most numRows passes; every pass marks at
\* least one flexible row fixed or ends the loop; the count of flexible rows
\* never increases and a fixed row stays fixed; when the loop has ended no
\* flexible row has a content height above remaining / flexCount.
C24_PassesFixOrEnd ==
    [][ /\ result'.passes <= Len(call.contentHeights)
        /\ result'.passes # result.passes
             => (FlexibleRows(result') # FlexibleRows(result) \/ result'.loop = "ended")
        /\ result'.flexCount <= result.flexCount
        /\ result'.flexCount = Cardinality(FlexibleRows(result'))
        /\ FlexibleRows(result') \subseteq FlexibleRows(result)
        /\ result'.loop = "ended" =>
              \A i \in FlexibleRows(result') :
                 ~FLess(FDiv(result'.remaining, FromInt(result'.flexCount)),
                        call.contentHeights[i])
      ]_vars

\* The loop ended by a pass that changed nothing and returned what the
\* one-call form of distributeRowHeights returns.
Distribute_SameAsOneCall ==
    done => result.rowHeights
              = distributeRowHeights(call.contentHeights, call.totalAvailable)

\* Two passes each fixed a row and the third found nothing more to fix.
C24_Witness ==
    /\ result.loop = "ended"
    /\ result.passes = 3
    /\ ~result.changed
    /\ result.flexCount = Len(call.contentHeights) - 2

-----------------------------------------------------------------------------
(* The times shown on the first and the last day of a multi-day appointment *)

\* text.includes(part)
Includes(text, part) ==
    \E k \in 0..(Len(text) - Len(part)) : SubSeq(text, k + 1, k + Len(part)) = part

\* The stored appointments of the page that span days and end, at a time
\* that is not an all-day end, on a day of the page's month
TimedEndInMonth(e) ==
    /\ isSpanningDays(e)
    /\ ~(e.endDate.hours = 0 /\ e.endDate.minutes = 0)
    /\ ~(e.endDate.hours = 23 /\ e.endDate.minutes = 59)
    /\ e.endDate.month = Page.month - 1
    /\ e.endDate.year = Page.year

\* C25: with showEndTime enabled, the text rendered on the last day of a
\* multi-day appointment with a timed end shows the appointment's formatted
\* end time.
C25_LastDayShowsEndTime ==
    (done /\ config.showEndTime) =>
        \A i \in 1..Len(Page.entries) :
            LET e == Page.entries[i]
            IN  TimedEndInMonth(e) =>
                    \E k \in 1..Len(CellTexts(DayCell(e.endDate.date))) :
                        LET text == CellTexts(DayCell(e.endDate.date))[k]
                        IN  /\ Includes(text, e.message)
                            /\ Includes(text, getFormattedEndTime(e))

\* What the code renders there: the message behind '...' and no time at all,
\* whatever showEndTime is.
Page_LastDayShowsNoTime ==
    done =>
        \A i \in 1..Len(Page.entries) :
            LET e == Page.entries[i]
            IN  TimedEndInMonth(e) =>
                    \E k \in 1..Len(CellTexts(DayCell(e.endDate.date))) :
                        CellTexts(DayCell(e.endDate.date))[k] = ELLIPSIS \o e.message

\* C26: the day-entry expanded for the first day of a multi-day appointment
\* has the formatted start time of the appointment, also when the
\* appointment starts at 00:00 and ends at a time other than 00:00 or 23:59
\* (checked under SpecExpand).
C26_FirstDayKeepsStartTime ==
    (done /\ isSpanningDays(call.entries[1])) =>
        \A i \in 1..Len(result) :
            ~NotFirstDay(result[i]) =>
                getFormattedStartTime(result[i]) = getFormattedStartTime(call.entries[1])

\* What the code keeps: the first day's formatted start time is the
\* appointment's unless the appointment starts at 00:00, where the day-entry,
\* having no end date, counts as all-day and has the empty start time.
Expand_FirstDayStartTime ==
    (done /\ isSpanningDays(call.entries[1])) =>
        \A i \in 1..Len(result) :
            ~NotFirstDay(result[i]) =>
                getFormattedStartTime(result[i])
                  = (IF TimeOfDay(call.entries[1].startDate) = 0 THEN ""
                     ELSE getFormattedStartTime(call.entries[1]))

-----------------------------------------------------------------------------
(* The legend of a page: addCategory calls, then buildPageContent           *)
(* (specification SpecLegend)                                               *)

\* A4 portrait with the legend on or off, and an A3 landscape page with a
\* wider left margin and month names of the caller
LegendConfigs ==
    { [orientation |-> "portrait", pageSize |-> "A4", weekStarts |-> 1,
       showLegend |-> sl] : sl \in BOOLEAN }
    \cup
    { [ orientation |-> "landscape", pageSize |-> "A3", weekStarts |-> 1,
        margins |-> [top |-> 10, right |-> 10, bottom |-> 10, left |-> 13],
        monthNames |-> << "Jan", "Feb", "Mär", "Apr", "Mai", "Jun", "Jul", "Aug",
                          "Sep", "Okt", "Nov", "Dez" >> ] }

InitLegend ==
    /\ config \in {Constructor(c) : c \in LegendConfigs}
    /\ pages = PushPage(<<>>, 4, 2024, NoTitle)
    /\ categories = <<>>
    /\ lastOp = "addMonth"
    /\ error = "none"
    /\ output = NoOutput
    /\ call = <<>>
    /\ result = <<>>
    /\ done = FALSE

\* addCategory with an id not yet registered
RegisterCategory ==
    /\ ~done
    /\ Len(categories) < MaxCategories
    /\ addCategory("k" \o ToString(Len(categories) + 1),
                   "Kalender " \o ToString(Len(categories) + 1), HexWhite, HexRed)
    /\ UNCHANGED helperVars

\* addCategory with the id of one of the first two registered categories
OverwriteCategory ==
    /\ ~done
    /\ \E k \in 1..2 :
          /\ k <= Len(categories)
          /\ addCategory(categories[k].id, "Chor neu", HexBlack, HexWhite)
    /\ UNCHANGED helperVars

BuildLegendPage ==
    /\ ~done
    /\ result' = buildPageContent(pages[1])
    /\ done' = TRUE
    /\ UNCHANGED <<call, builderVars>>

NextLegend == RegisterCategory \/ OverwriteCategory \/ BuildLegendPage

SpecLegend == InitLegend /\ [][NextLegend]_vars

\* The parts of the built page: with a legend the stack is title, table,
\* legend, footer; without, title, table, footer
PageStack == result[1].stack
HasLegend == \E k \in 1..Len(PageStack) : "stack" \in DOMAIN PageStack[k]
LegendRows == IF HasLegend THEN PageStack[3].stack ELSE <<>>
LegendRowCells(r) == LegendRows[r].table.body[1]

\* The cell of a category as the legend shows it
LegendCellOf(cat) ==
    [name |-> cat.name, color |-> rgbToHex(cat.textColor), fillColor |-> rgbToHex(cat.bgColor)]

LegendCellShown(cell) ==
    [name |-> cell.stack[1].text, color |-> cell.stack[1].color, fillColor |-> cell.fillColor]

\* The height taken from the grid for the legend
LegendReserved ==
    LET numRows == getWeeksInMonth(pages[1].year, pages[1].month, config.weekStarts)
    IN  FSub(GridHeightPt(numRows, FALSE),
             GridHeightPt(numRows, config.showLegend /\ Len(categories) > 0))

LegendAsRegistered ==
    LET n == Len(categories)
    IN  /\ HasLegend = (config.showLegend /\ n > 0)
        /\ Len(PageStack) = (IF HasLegend THEN 4 ELSE 3)
        /\ HasLegend =>
              /\ Len(LegendRows) = CeilDiv(n, 7)
              /\ \A r \in 1..Len(LegendRows) :
                    Len(LegendRowCells(r)) = (IF r < Len(LegendRows) THEN 7 ELSE n - 7 * (r - 1))
              /\ \A k \in 1..n :
                    LegendCellShown(LegendRowCells(((k - 1) \div 7) + 1)[((k - 1) % 7) + 1])
                      = LegendCellOf(categories[k])
        /\ FClose(LegendReserved,
                  FMul(FromInt(Len(LegendRows)), legendRowHeightPt))

\* The step registered a category: a new id is added behind the others, a
\* known id keeps its place and gets the new name and colours.
RegisteredInOrder ==
    /\ \A i, j \in 1..Len(categories') : categories'[i].id = categories'[j].id => i = j
    /\ Len(categories') \in {Len(categories), Len(categories) + 1}
    /\ \A i \in 1..Len(categories) : categories'[i].id = categories[i].id
    /\ Len(categories') = Len(categories) =>
          \E k \in 1..Len(categories) :
             /\ categories'[k].name = "Chor neu"
             /\ categories'[k].textColor = html2rgb(HexBlack)
             /\ categories'[k].bgColor = html2rgb(HexWhite)
             /\ \A i \in 1..Len(categories) : i # k => categories'[i] = categories[i]
    /\ Len(categories') = Len(categories) + 1 =>
          \A i \in 1..Len(categories) : categories'[i] = categories[i]

\* C27: a page has a legend exactly when showLegend is on and a category is
\* registered; the legend has ceil(n / 7) rows, every row but the last of 7
\* cells, one cell per registered category in registration order with the
\* category's latest name and colours; the height taken from the grid for
\* the legend is the row count times the height of a legend row, zero
\* without a legend.
C27_LegendRows ==
    /\ [][lastOp' = "addCategory" /\ ~done' => RegisteredInOrder]_vars
    /\ [](done => LegendAsRegistered)

\* Fifteen categories, the first overwritten: three legend rows of 7, 7 and 1
C27_Witness ==
    /\ done
    /\ Len(categories) = 15
    /\ categories[1].name = "Chor neu"
    /\ HasLegend
    /\ Len(LegendRows) = 3
    /\ Len(LegendRowCells(3)) = 1
    /\ LegendCellShown(LegendRowCells(1)[1]).name = "Chor neu"

-----------------------------------------------------------------------------
(* The three walks over the week grid on one page with one appointment:     *)
(* estimateRowContentHeights, buildPageContent and calculateGrid            *)
(* (specification SpecGrid)                                                 *)

GridConfigs ==
    { [orientation |-> "portrait", pageSize |-> "A4", weekStarts |-> ws] : ws \in WeekStarts }

\* The GridConfig of the builder's page: A4 portrait in millimetres, 10 mm
\* for the title and 8 mm for the weekday header, no legend
GridConfigOf(page) ==
    [ month |-> page.month, year |-> page.year, weekStarts |-> config.weekStarts,
      pageWidth |-> PAGE_SIZES.A4.width, pageHeight |-> PAGE_SIZES.A4.height,
      margins |-> config.margins,
      titleHeight |-> 10, headerHeight |-> 8, legendHeight |-> 0 ]

InitGrid ==
    /\ config \in {Constructor(c) : c \in GridConfigs}
    /\ \E p \in PageMonths, d \in 1..31 :
          /\ d <= getDaysInMonth(p[2], p[1])
          /\ pages = PushEntry(PushPage(<<>>, p[1], p[2], NoTitle),
                        CalendarEntry(MkDate(p[2], p[1] - 1, d, 9, 0), Null,
                                      "Probe", HexBlack, HexWhite))
    /\ categories = <<>>
    /\ lastOp = "addEntry"
    /\ error = "none"
    /\ output = NoOutput
    /\ call = <<>>
    /\ result = <<>>
    /\ done = FALSE

\* The estimate at the font size the layout of the page settles on, the
\* page's content, and the grid of the same month
WalkTheGrid ==
    /\ ~done
    /\ LET page == pages[1]
           entriesByDay == groupEntriesByDay(sortEntries(
                               expandMultiDayEntries(page.entries, page.month, page.year)))
       IN  result' =
             [ contentHeights |->
                   estimateRowContentHeights(entriesByDay,
                       getWeeksInMonth(page.year, page.month, config.weekStarts),
                       getFirstDayWeekday(page.year, page.month, config.weekStarts),
                       getDaysInMonth(page.year, page.month), ColWidthPt,
                       FromInt(ENTRY_FONT_SIZE)),
               content |-> buildPageContent(page),
               grid |-> calculateGrid(GridConfigOf(page)) ]
    /\ done' = TRUE
    /\ UNCHANGED <<call, builderVars>>

NextGrid == WalkTheGrid

SpecGrid == InitGrid /\ [][NextGrid]_vars

\* The day of the page's appointment and the place every walk should give it
GridDay == pages[1].entries[1].day
GridOffset == getFirstDayWeekday(pages[1].year, pages[1].month, config.weekStarts)
PlaceRow(d) == (GridOffset + d - 1) \div 7
PlaceCol(d) == (GridOffset + d - 1) % 7

\* The rows of the emitted table below the header
EmittedRows == Tail(result.content[1].stack[2].table.body)
EmittedHeights == Tail(result.content[1].stack[2].table.heights)

\* C28: the estimator, the table emitter and calculateGrid put day d in row
\* floor((offset + d - 1) / 7) and column (offset + d - 1) mod 7: the only
\* row the estimator finds content in is the row of the appointment's day,
\* the emitted table has the cell of every day at that place, with a row
\* height that covers the estimate of that row, and calculateGrid yields one
\* cell per day of the month, each at that place.
C28_WalksAgree ==
    done =>
        LET daysInMonth == getDaysInMonth(pages[1].year, pages[1].month)
        IN  /\ \A r \in 1..Len(result.contentHeights) :
                  FLess(minRowHeight, result.contentHeights[r]) = (r = PlaceRow(GridDay) + 1)
            /\ \A d \in 1..daysInMonth :
                  LET cell == EmittedRows[PlaceRow(d) + 1][PlaceCol(d) + 1]
                  IN  /\ IsDayCell(cell)
                      /\ DayNumberOf(cell) = ToString(d)
                      /\ (CellEntries(cell) # <<>>) = (d = GridDay)
            /\ FLessEq(result.contentHeights[PlaceRow(GridDay) + 1],
                       EmittedHeights[PlaceRow(GridDay) + 1])
            /\ Len(result.grid.cells) = daysInMonth
            /\ \A d \in 1..daysInMonth :
                  /\ result.grid.cells[d].day = d
                  /\ result.grid.cells[d].row = PlaceRow(d)
                  /\ result.grid.cells[d].col = PlaceCol(d)

\* A month of 6 rows with the appointment on its last day, alone in row 5
C28_Witness ==
    /\ done
    /\ Len(result.contentHeights) = 6
    /\ GridDay = getDaysInMonth(pages[1].year, pages[1].month)
    /\ PlaceRow(GridDay) = 5
    /\ FLess(minRowHeight, result.contentHeights[6])
    /\ result.grid.cells[GridDay].row = 5
    /\ CellEntries(EmittedRows[6][PlaceCol(GridDay) + 1]) # <<>>

-----------------------------------------------------------------------------
(* The weekday header against the placement of the days (checked under      *)
(* SpecPage)                                                                *)

\* The weekday (0 = Sunday) of day d of the page's month, counted from
\* Monday 2024-01-01 by month lengths
ActualWeekday(d) == (DaysFrom2024(Page.year, Page.month) + d + 7000) % 7

HeaderNames == [c \in 0..6 |-> PageTable.body[1][c + 1].text]

\* The columns (from 0) of the emitted table that hold the cell of day d
ColumnsOfDay(d) ==
    { c \in 0..6 : \E r \in 1..Len(BodyRows) :
        /\ IsDayCell(BodyRows[r][c + 1])
        /\ DayNumberOf(BodyRows[r][c + 1]) = ToString(d) }

\* C29: without custom day names, header column c names weekday
\* (c + weekStarts) mod 7, and every day of the month stands in exactly one
\* column, whose header names the weekday of that date.
C29_HeaderMatchesPlacement ==
    (done /\ "dayNames" \notin DOMAIN config) =>
        /\ \A c \in 0..6 :
              HeaderNames[c] = DAY_NAMES_SHORT_DE[((c + config.weekStarts) % 7) + 1]
        /\ \A d \in 1..PageDays :
              /\ Cardinality(ColumnsOfDay(d)) = 1
              /\ \A c \in ColumnsOfDay(d) :
                    HeaderNames[c] = DAY_NAMES_SHORT_DE[ActualWeekday(d) + 1]

\* September 2024 starts on a Sunday: under a Monday week start day 1 stands
\* in the last column, under 'So'.
C29_Witness ==
    /\ done
    /\ config.weekStarts = 1
    /\ Page.month = 9 /\ Page.year = 2024
    /\ ActualWeekday(1) = 0
    /\ ColumnsOfDay(1) = {6}
    /\ HeaderNames[6] = "So"
    /\ HeaderNames[0] = "Mo"

====
